---- MODULE Spec2Model ----
(***************************************************************************)
(* A model of dissect.disc: the DISC facade (format probing and selection) *)
(* and the ISO 9660 / Joliet / Rock Ridge readers (directory iteration,    *)
(* lookup by traversal and by path table, listing, open, metadata).        *)
(*                                                                         *)
(* A disc image is an input: the volume descriptor set, the bytes that     *)
(* follow it, the System Use Area of the root's first record and the       *)
(* directory blocks.  Strings that the code splits or joins (paths) are    *)
(* sequences of tokens, a token being "/" or a whole name.                 *)
(***************************************************************************)
EXTENDS Integers, Sequences, FiniteSets, TLC

(* ------------------------------ bounds --------------------------------- *)
\* volume descriptors in front of the descriptor that ends the set
MaxVD == 2
\* child records of the root directory beyond "." and ".."
MaxEntries == 2
\* components of a looked-up path
MaxDepth == 2
MaxComponents == 3
MaxPermBit == 12
MaxAreas == 17
MaxDescriptors == 4
MaxBlock == 9
MaxExtents == 3

(* ----------------------------- constants ------------------------------- *)
ISO_VD_PRIMARY == 1
ISO_VD_SUPPLEMENTARY == 2
ISO_VD_END == 255
ISO_STANDARD_ID == "CD001"
SUSP_MAGIC == "SP0701beef"
ROCKRIDGE_MAGICS == {"RRIP_1991A", "IEEE_P1282", "IEEE_1282"}
UDF_MAGICS == {"NSR02", "BEA01", "TEA01", "BOOT2"}

\* Python's None, and an optional value as a sequence of length 0 or 1
None == "None"
Nothing == <<>>
Some(x) == <<x>>

\* class ISOFormat
PLAIN == "plain"
ROCKRIDGE == "rockridge"
JOLIET == "joliet"
ISOFormat == {PLAIN, ROCKRIDGE, JOLIET}
\* DiscFormat.UDF of base.py: a tag the facade's mapping has no key for
UDF == "udf"

DEFAULT_FORMAT_PREFERENCE_ORDER == <<ROCKRIDGE, JOLIET, PLAIN>>

\* the preferences a caller can pass: a tag or None
Preferences == ISOFormat \cup {UDF, None}

(* -------------------------- volume descriptors ------------------------- *)
VD(id, type, sys0) == [id |-> id, type |-> type, system_id0 |-> sys0]
PrimaryVD == VD(ISO_STANDARD_ID, ISO_VD_PRIMARY, 76)
JolietVD == VD(ISO_STANDARD_ID, ISO_VD_SUPPLEMENTARY, 0)
OtherVD == VD(ISO_STANDARD_ID, ISO_VD_SUPPLEMENTARY, 76)
EndVD == VD(ISO_STANDARD_ID, ISO_VD_END, 0)
ForeignVD == VD("BEA01", 0, 0)

\* DISC.__init__: the mapping before probing
EmptyVolumes == [f \in ISOFormat |-> Nothing]

\* DISC._load_volume_descriptors: the loop from descriptor i on.  A volume
\* is kept as the index of its descriptor.
RECURSIVE LoadVolumeDescriptors(_, _, _)
LoadVolumeDescriptors(vds, i, pv) ==
    IF i > Len(vds)
    THEN [err |-> "EOFError", pv |-> pv, ended |-> FALSE]
    ELSE IF vds[i].id # ISO_STANDARD_ID
    THEN [err |-> "ValueError: Invalid volume descriptor ID", pv |-> pv, ended |-> FALSE]
    ELSE IF vds[i].type = ISO_VD_END
    THEN [err |-> None, pv |-> pv, ended |-> TRUE]
    ELSE IF vds[i].type = ISO_VD_PRIMARY
    THEN LoadVolumeDescriptors(vds, i + 1, [pv EXCEPT ![PLAIN] = Some(i)])
    ELSE IF vds[i].type = ISO_VD_SUPPLEMENTARY /\ vds[i].system_id0 = 0
    THEN LoadVolumeDescriptors(vds, i + 1, [pv EXCEPT ![JOLIET] = Some(i)])
    ELSE LoadVolumeDescriptors(vds, i + 1, pv)

(* ------------------------------ diagnostics ---------------------------- *)
UdfMessage == <<"error", "dissect.disc does not (yet) support UDF">>
JolietMessage == <<"warning", "Treating disc as Joliet even though Rockridge is available.">>
FallbackMessage(pref, fmt) == <<"warning", pref, "format is not available for this disc. Falling back to", fmt>>
SuspMessage(id) == <<"error", "Encountered SUSP-compliant disc but could not detect Rockridge", id>>

\* DISC._check_udf: the five bytes after the type byte that follows the set
CheckUdf(img) ==
    IF img.after_vds \in UDF_MAGICS THEN <<UdfMessage>> ELSE <<>>

\* DISC._check_rockridge, on the root's first record of the plain volume
CheckRockridge(img, pv) ==
    IF img.susp # SUSP_MAGIC
    THEN [err |-> None, pv |-> pv, logs |-> <<>>]
    ELSE IF img.er # Nothing /\ img.er[1] \in ROCKRIDGE_MAGICS
    THEN [err |-> None, pv |-> [pv EXCEPT ![ROCKRIDGE] = pv[PLAIN]], logs |-> <<>>]
    ELSE IF img.er # Nothing
    THEN [err |-> None, pv |-> pv, logs |-> <<SuspMessage(img.er[1])>>]
    ELSE [err |-> "UnboundLocalError: identifier", pv |-> pv, logs |-> <<>>]

\* FirstAvailable without the test that the format has a volume
FirstAvailableUnchecked(pv, i) == DEFAULT_FORMAT_PREFERENCE_ORDER[i]

\* the loop of DISC._select_format over DEFAULT_FORMAT_PREFERENCE_ORDER
RECURSIVE FirstAvailable(_, _)
FirstAvailable(pv, i) ==
    IF i > Len(DEFAULT_FORMAT_PREFERENCE_ORDER) THEN None
    ELSE IF pv[DEFAULT_FORMAT_PREFERENCE_ORDER[i]] # Nothing
    THEN DEFAULT_FORMAT_PREFERENCE_ORDER[i]
    ELSE FirstAvailable(pv, i + 1)

\* SelectFormat that takes the best available format whatever the preference
SelectFormatIgnoringPreference(pv, preference) ==
    IF preference # None /\ preference \notin DOMAIN pv
    THEN [err |-> "KeyError", fmt |-> None, logs |-> <<>>]
    ELSE IF FirstAvailable(pv, 1) = None
    THEN [err |-> "ValueError: Could not select format for disc.", fmt |-> None, logs |-> <<>>]
    ELSE [err |-> None, fmt |-> FirstAvailable(pv, 1), logs |-> <<>>]

\* SelectFormat that warns about Joliet whether or not Rock Ridge is there
SelectFormatAlwaysWarning(pv, preference) ==
    IF preference # None /\ preference \notin DOMAIN pv
    THEN [err |-> "KeyError", fmt |-> None, logs |-> <<>>]
    ELSE IF preference # None /\ pv[preference] # Nothing
    THEN [err |-> None, fmt |-> preference,
          logs |-> IF preference = JOLIET THEN <<JolietMessage>> ELSE <<>>]
    ELSE IF FirstAvailable(pv, 1) = None
    THEN [err |-> "ValueError: Could not select format for disc.", fmt |-> None, logs |-> <<>>]
    ELSE [err |-> None, fmt |-> FirstAvailable(pv, 1),
          logs |-> IF preference # None
                   THEN <<FallbackMessage(preference, FirstAvailable(pv, 1))>> ELSE <<>>]

\* DISC._select_format
SelectFormat(pv, preference) ==
    IF preference # None /\ preference \notin DOMAIN pv
    THEN [err |-> "KeyError", fmt |-> None, logs |-> <<>>]
    ELSE IF preference # None /\ pv[preference] # Nothing
    THEN [err |-> None, fmt |-> preference,
          logs |-> IF preference = JOLIET /\ pv[ROCKRIDGE] # Nothing
                   THEN <<JolietMessage>> ELSE <<>>]
    ELSE IF FirstAvailable(pv, 1) = None
    THEN [err |-> "ValueError: Could not select format for disc.", fmt |-> None, logs |-> <<>>]
    ELSE [err |-> None, fmt |-> FirstAvailable(pv, 1),
          logs |-> IF preference # None
                   THEN <<FallbackMessage(preference, FirstAvailable(pv, 1))>> ELSE <<>>]

Failed(e, pv, logs) ==
    [err |-> e, pv |-> pv, fmt |-> None, logs |-> logs, encoding |-> "utf-8"]

\* DISC.__init__
DiscInit(img, preference) ==
    LET ld == LoadVolumeDescriptors(img.vds, 1, EmptyVolumes)
        l1 == IF ld.ended THEN CheckUdf(img) ELSE <<>>
        rr == CheckRockridge(img, ld.pv)
        l2 == l1 \o rr.logs
        sf == SelectFormat(rr.pv, preference)
        l3 == l2 \o sf.logs
    IN  IF ld.err # None THEN Failed(ld.err, ld.pv, l1)
        ELSE IF ld.pv[PLAIN] = Nothing
        THEN Failed("ValueError: No primary volume descriptor found.", ld.pv, l1)
        ELSE IF rr.err # None THEN Failed(rr.err, rr.pv, l2)
        ELSE IF sf.err # None THEN Failed(sf.err, rr.pv, l3)
        ELSE IF img.volume_id = <<>>
        THEN Failed("IndexError: volume_id", rr.pv, l3)
        ELSE [err |-> None, pv |-> rr.pv, fmt |-> sf.fmt, logs |-> l3,
              encoding |-> IF sf.fmt = JOLIET THEN "utf-16-be" ELSE "utf-8"]

(* --------------------------- directory records ------------------------- *)
\* c_iso.iso_directory_record with the System Use entries it carries: the
\* raw name is base \o ver (ver is "" or a ";n" suffix), nm the NM entry's
\* name ("" when the record has none), re whether it has an RE entry, px
\* its PX entry if any.  date_time is the record's own timestamp; cl the
\* location of its CL entry and tf its TF entry, if it has them.
Rec(base, ver, dir, extent, size, nm, re, px) ==
    [base |-> base, ver |-> ver, dir |-> dir, extent |-> extent, size |-> size,
     interleave |-> 0, ext_attr_length |-> 0, nm |-> nm, re |-> re, px |-> px,
     date_time |-> "t_RECORD", cl |-> Nothing, tf |-> Nothing]
DotRec(extent) == Rec("<00>", "", TRUE, extent, 2048, "", FALSE, Nothing)
DotDotRec(extent) == Rec("<01>", "", TRUE, extent, 2048, "", FALSE, Nothing)

\* a file or directory of the image, as the mastering tool lays it down in
\* the ISO 9660 tree (with Rock Ridge entries) and in the Joliet tree
Node(base, ver, long, dir, extent, size, re) ==
    [base |-> base, ver |-> ver, long |-> long, dir |-> dir, extent |-> extent,
     size |-> size, re |-> re, cl |-> Nothing, tf |-> Nothing, ext_attr_length |-> 0]

\* c_rockridge.RR_TF_s and the values that follow it: the flags in the order
\* CREATION, MODIFY, ACCESS, ATTRIBUTES, BACKUP, EXPIRATION, EFFECTIVE (the
\* values of RockRidgeTimestampType, 0 to 6) and one value per set flag
TimestampTypes ==
    <<"CREATION", "MODIFY", "ACCESS", "ATTRIBUTES", "BACKUP", "EXPIRATION", "EFFECTIVE">>
TF(flags) ==
    [flags |-> flags,
     values |-> LET set == SelectSeq([i \in 1..7 |-> i], LAMBDA i : flags[i])
                IN  [k \in 1..Len(set) |-> "t_" \o TimestampTypes[set[k]]]]
Flags(S) == [i \in 1..7 |-> TimestampTypes[i] \in S]

NodeA == Node("A", "", "a", TRUE, 21, 2048, FALSE)
NodeR == Node("R", "", "r", TRUE, 22, 2048, TRUE)
\* the placeholder left where the relocated directory (block 22) belongs
NodeC == [Node("C", "", "c", FALSE, 0, 0, FALSE) EXCEPT !.cl = Some(22)]
NodeF1 ==
    [Node("F", ";1", "F", FALSE, 40, 11, FALSE)
        EXCEPT !.tf = Some(TF(Flags({"MODIFY", "ACCESS", "ATTRIBUTES"})))]
NodeF2 ==
    [Node("F", ";2", "F", FALSE, 41, 36, FALSE)
        EXCEPT !.tf = Some(TF(Flags({"CREATION", "ACCESS"})))]
NodeF3 == Node("F", ";1", "F", FALSE, 43, 13, FALSE)
NodeF4 == [Node("F", ";2", "F", FALSE, 44, 14, FALSE) EXCEPT !.ext_attr_length = 1]
NodeF5 == Node("F", ";1", "F", FALSE, 45, 15, FALSE)
PosixOf(n) ==
    Some([mode |-> IF n.dir THEN 365 ELSE 292, links |-> IF n.dir THEN 2 ELSE 1,
          uid |-> 1000, gid |-> 100])
IsoRec(n) ==
    [Rec(n.base, n.ver, n.dir, n.extent, n.size, n.long, n.re, PosixOf(n))
        EXCEPT !.cl = n.cl, !.tf = n.tf, !.ext_attr_length = n.ext_attr_length]
\* the Joliet tree has no relocation: the directory stands where it belongs
JolietRec(n) ==
    IF n.cl # Nothing
    THEN Rec(n.long, n.ver, TRUE, n.cl[1] + 10, 2048, "", FALSE, Nothing)
    ELSE [Rec(n.long, n.ver, n.dir, IF n.dir THEN n.extent + 10 ELSE n.extent, n.size, "",
              FALSE, Nothing)
            EXCEPT !.ext_attr_length = n.ext_attr_length]
MapSeq(Op(_), s) == [i \in 1..Len(s) |-> Op(s[i])]

\* What the bytes at a block parse to as directory records, and whether a
\* zero byte follows the last record inside the bytes read.  Blocks 20-22
\* are the directories of the primary volume, 30-32 those of the Joliet
\* volume; block 41 is the content of a file that itself holds a directory
\* record; every other file starts with a zero byte.
Block(img, e) ==
    CASE e = 20 -> [recs |-> <<DotRec(20), DotDotRec(20)>> \o MapSeq(IsoRec, img.root), padded |-> TRUE]
      [] e = 21 -> [recs |-> <<DotRec(21), DotDotRec(20)>> \o MapSeq(IsoRec, img.sub), padded |-> ~img.exact]
      [] e = 22 -> [recs |-> <<DotRec(22), DotDotRec(20), IsoRec(NodeF5)>>, padded |-> TRUE]
      [] e = 30 -> [recs |-> <<DotRec(30), DotDotRec(30)>> \o MapSeq(JolietRec, img.root), padded |-> TRUE]
      [] e = 31 -> [recs |-> <<DotRec(31), DotDotRec(30)>> \o MapSeq(JolietRec, img.sub), padded |-> ~img.exact]
      [] e = 32 -> [recs |-> <<DotRec(32), DotDotRec(30), JolietRec(NodeF5)>>, padded |-> TRUE]
      [] e = 41 -> [recs |-> <<Rec("F", ";1", FALSE, 42, 5, "F", FALSE, Nothing)>>, padded |-> TRUE]
      [] OTHER -> [recs |-> <<>>, padded |-> TRUE]

\* c_iso.iso_path_table_entry
PathTableEntry(name, parent, extent) ==
    [name |-> name, parent_dir_no |-> parent, extent_location |-> extent]
IsDirNode(n) == n.dir
IsJolietDirNode(n) == n.dir \/ n.cl # Nothing
IsoPathEntry(n) == PathTableEntry(n.base, 1, n.extent)
JolietPathEntry(n) ==
    PathTableEntry(n.long, 1, IF n.cl # Nothing THEN n.cl[1] + 10 ELSE n.extent + 10)

\* the volume a format reads: its root directory record, block size and
\* path table (primary_volume.root_directory_record, logical_block_size,
\* type_l_path_table)
RootRecord(fmt) == IF fmt = JOLIET THEN DotRec(30) ELSE DotRec(20)
LogicalBlockSize(img, fmt) == img.logical_block_size
PathTableBytes(img, fmt) ==
    IF fmt = JOLIET
    THEN <<PathTableEntry("<00>", 1, 30)>>
            \o MapSeq(JolietPathEntry, SelectSeq(img.root, IsJolietDirNode))
            \o [i \in DOMAIN img.path_table_extra |->
                    [img.path_table_extra[i] EXCEPT !.extent_location = @ + 10]]
    ELSE <<PathTableEntry("<00>", 1, 20)>> \o MapSeq(IsoPathEntry, SelectSeq(img.root, IsDirNode))
            \o img.path_table_extra

(* -------------------------------- entries ------------------------------ *)
\* ISO9660DirectoryRecord.__init__: the decoded name
RecordName(rec) ==
    IF rec.base \o rec.ver = "<00>" THEN "."
    ELSE IF rec.base \o rec.ver = "<01>" THEN ".."
    ELSE IF ~rec.dir THEN rec.base
    ELSE rec.base \o rec.ver

ISO9660DirectoryRecord(rec, parent) ==
    [name |-> RecordName(rec), is_dir |-> rec.dir, record |-> rec, rockridge |-> FALSE,
     parent |-> parent]

\* RockRidgeDirectoryRecord._set_name
SetName(rec) == IF rec.nm # "" THEN rec.nm ELSE RecordName(rec)

\* ResolveRelocation that leaves the entry bound to the placeholder record
ResolveRelocationKeepingPlaceholder(img, rec) ==
    [name |-> SetName(rec), is_dir |-> rec.dir, record |-> rec, rockridge |-> TRUE,
     parent |-> Nothing]

\* RockRidgeDirectoryRecord._resolve_relocation on a record with a CL entry:
\* the entry is initialised again from the record read at the CL location,
\* without a parent, and takes its first name back
ResolveRelocation(img, rec) ==
    LET record == Block(img, rec.cl[1]).recs[1]
    IN  [name |-> SetName(rec), is_dir |-> record.dir, record |-> record, rockridge |-> TRUE,
         parent |-> Nothing]

\* RockRidgeDirectoryRecord.__init__ with _set_name and _resolve_relocation
RockRidgeDirectoryRecord(img, rec, parent) ==
    IF rec.cl # Nothing THEN ResolveRelocation(img, rec)
    ELSE [name |-> SetName(rec), is_dir |-> rec.dir, record |-> rec, rockridge |-> TRUE,
          parent |-> parent]

\* make_record of ISO9660Disc and of RockridgeDisc
MakeRecord(img, fmt, rec) ==
    IF fmt = ROCKRIDGE THEN RockRidgeDirectoryRecord(img, rec, Nothing)
    ELSE ISO9660DirectoryRecord(rec, Nothing)

NotRelocated(e) == ~e.record.re

\* ISO9660DirectoryRecord.iterdir and RockRidgeDirectoryRecord.iterdir: the
\* entries yielded, and the error that ends the iteration when no zero byte
\* follows the last record
Iterdir(img, self) ==
    LET block == Block(img, self.record.extent)
        made == [i \in 1..Len(block.recs) |->
                    IF self.rockridge THEN RockRidgeDirectoryRecord(img, block.recs[i], Some(self))
                    ELSE ISO9660DirectoryRecord(block.recs[i], Some(self))]
    IN  [entries |-> IF self.rockridge THEN SelectSeq(made, NotRelocated) ELSE made,
         err |-> IF block.padded THEN None ELSE "EOFError"]

\* str.split("/") on a path
RECURSIVE SplitAcc(_, _, _)
SplitAcc(p, acc, cur) ==
    IF p = <<>> THEN Append(acc, cur)
    ELSE IF Head(p) = "/" THEN SplitAcc(Tail(p), Append(acc, cur), "")
    ELSE SplitAcc(Tail(p), acc, cur \o Head(p))
Split(p) == SplitAcc(p, <<>>, "")

\* the inner for loop of DiscBaseEntry.get: the entry current_entry is left
\* bound to after the whole directory was iterated
RECURSIVE LastMatch(_, _, _)
LastMatch(entries, elem, found) ==
    IF entries = <<>> THEN found
    ELSE IF Head(entries).name = elem THEN LastMatch(Tail(entries), elem, Some(Head(entries)))
    ELSE LastMatch(Tail(entries), elem, found)

\* the while loop of DiscBaseEntry.get / ISO9660DirectoryRecord.get
RECURSIVE Walk(_, _, _)
Walk(img, current_entry, queue) ==
    IF queue = <<>> THEN [err |-> None, entry |-> Some(current_entry)]
    ELSE IF Head(queue) = "" THEN Walk(img, current_entry, Tail(queue))
    ELSE LET it == Iterdir(img, current_entry)
             found == LastMatch(it.entries, Head(queue), Nothing)
         IN  IF it.err # None THEN [err |-> it.err, entry |-> Nothing]
             ELSE IF found = Nothing THEN [err |-> "FileNotFoundError", entry |-> Nothing]
             ELSE Walk(img, found[1], Tail(queue))

\* DiscBaseEntry.get / ISO9660DirectoryRecord.get
EntryGet(img, self, path) ==
    IF ~self.is_dir THEN [err |-> "NotADirectoryError", entry |-> Nothing]
    ELSE Walk(img, self, Split(path))

\* DictOf that keeps the first record of a name instead of the last
RECURSIVE DictOfFirst(_, _)
DictOfFirst(entries, d) ==
    IF entries = <<>> THEN d
    ELSE DictOfFirst(Tail(entries), d @@ (Head(entries).name :> Head(entries)))

\* DiscBaseEntry.listdir: the dict comprehension over iterdir
RECURSIVE DictOf(_, _)
DictOf(entries, d) ==
    IF entries = <<>> THEN d
    ELSE DictOf(Tail(entries), (Head(entries).name :> Head(entries)) @@ d)
Listdir(img, self) ==
    LET it == Iterdir(img, self)
    IN  IF it.err # None THEN [err |-> it.err, value |-> <<>>]
        ELSE [err |-> None, value |-> DictOf(it.entries, <<>>)]

(* ------------------------------ path table ----------------------------- *)
\* the join of ISO9660Disc.path_table
JoinPath(parent_path, entry_name) ==
    parent_path \o (IF parent_path # <<"/">> THEN <<"/">> ELSE <<>>) \o <<entry_name>>

\* the while loop of ISO9660Disc.path_table over the entries from index on;
\* entries maps an index to its path, table a path to its extent
RECURSIVE PathTableLoop(_, _, _, _)
PathTableLoop(bytes, index, entries, table) ==
    IF index > Len(bytes) THEN [err |-> None, table |-> table]
    ELSE IF index = 1
    THEN PathTableLoop(bytes, 2, (1 :> <<"/">>) @@ entries,
                       (<<"/">> :> bytes[1].extent_location) @@ table)
    ELSE IF bytes[index].parent_dir_no \notin DOMAIN entries
    THEN [err |-> "KeyError", table |-> table]
    ELSE PathTableLoop(bytes, index + 1,
            (index :> JoinPath(entries[bytes[index].parent_dir_no], bytes[index].name)) @@ entries,
            (JoinPath(entries[bytes[index].parent_dir_no], bytes[index].name)
                :> bytes[index].extent_location) @@ table)

\* ISO9660Disc.path_table: the cached map if there is one, else the map built
PathTable(img, fmt, cache) ==
    IF cache # Nothing THEN [err |-> None, table |-> cache[1]]
    ELSE PathTableLoop(PathTableBytes(img, fmt), 1, <<>>, <<>>)

(* ---------------------------------- get -------------------------------- *)
\* str.rpartition("/"): the index of the last "/" of p, 0 when there is none
RECURSIVE LastSlash(_, _)
LastSlash(p, i) ==
    IF i = 0 THEN 0 ELSE IF p[i] = "/" THEN i ELSE LastSlash(p, i - 1)
RPartitionHead(p) ==
    IF LastSlash(p, Len(p)) = 0 THEN <<>> ELSE SubSeq(p, 1, LastSlash(p, Len(p)) - 1)
RPartitionTail(p) == SubSeq(p, LastSlash(p, Len(p)) + 1, Len(p))
RECURSIVE Concat(_)
Concat(p) == IF p = <<>> THEN "" ELSE Head(p) \o Concat(Tail(p))

\* the path of ISO9660Disc.get after "left-pad with leading slash, remove
\* trailing slash"
Normalise(path) ==
    LET padded == IF path = <<>> \/ Head(path) # "/" THEN <<"/">> \o path ELSE path
    IN  IF padded[Len(padded)] = "/" THEN SubSeq(padded, 1, Len(padded) - 1) ELSE padded

\* the first entry of a directory whose name is filename (the loop of
\* ISO9660Disc.get returns at the first match)
RECURSIVE FirstMatch(_, _)
FirstMatch(entries, filename) ==
    IF entries = <<>> THEN Nothing
    ELSE IF Head(entries).name = filename THEN Some(Head(entries))
    ELSE FirstMatch(Tail(entries), filename)

\* ISO9660Disc.get with use_path_table: table is self.path_table
GetByPathTable(img, fmt, table, path) ==
    LET direct == path \in DOMAIN table
        dirpath == IF direct THEN path
                   ELSE IF RPartitionHead(path) = <<>> THEN <<"/">> ELSE RPartitionHead(path)
        filename == Concat(RPartitionTail(path))
        \* the record read at the extent: the first record of that block
        first == Block(img, table[dirpath]).recs[1]
        it == Iterdir(img, MakeRecord(img, fmt, first))
    IN  IF dirpath \notin DOMAIN table THEN [err |-> "FileNotFoundError", entry |-> Nothing]
        ELSE IF direct THEN [err |-> None, entry |-> Some(MakeRecord(img, fmt, first))]
        ELSE IF FirstMatch(it.entries, filename) # Nothing
        THEN [err |-> None, entry |-> FirstMatch(it.entries, filename)]
        ELSE IF it.err # None THEN [err |-> it.err, entry |-> Nothing]
        ELSE [err |-> "FileNotFoundError", entry |-> Nothing]

\* ISO9660Disc.get: the outcome, the entry and self._path_table afterwards
DiscGet(img, fmt, cache, path, use_path_table) ==
    IF ~use_path_table
    THEN LET g == EntryGet(img, MakeRecord(img, fmt, RootRecord(fmt)), Normalise(path))
         IN  [err |-> g.err, entry |-> g.entry, cache |-> cache]
    ELSE LET pt == PathTable(img, fmt, cache)
             g == GetByPathTable(img, fmt, pt.table, Normalise(path))
         IN  IF pt.err # None
             THEN [err |-> pt.err, entry |-> Nothing, cache |-> Some(pt.table)]
             ELSE [err |-> g.err, entry |-> g.entry, cache |-> Some(pt.table)]

(* ----------------------------- open, metadata -------------------------- *)
\* ISO9660DirectoryRecord.open: the byte range of the stream
EntryOpen(img, fmt, self) ==
    IF self.is_dir THEN [err |-> "NotAFileError", value |-> <<>>]
    ELSE IF self.record.interleave # 0 THEN [err |-> "NotImplementedError", value |-> <<>>]
    ELSE [err |-> None,
          value |-> <<self.record.extent * LogicalBlockSize(img, fmt), self.record.size>>]

\* ISO9660DirectoryRecord.mode and RockRidgeDirectoryRecord.mode
EntryMode(self) ==
    IF self.rockridge /\ self.record.px # Nothing
    THEN [err |-> None, value |-> <<self.record.px[1].mode>>]
    ELSE IF self.record.ext_attr_length = 0 THEN [err |-> None, value |-> <<420>>]
    ELSE [err |-> "NotImplementedError", value |-> <<>>]

\* ISO9660DirectoryRecord.uid and RockRidgeDirectoryRecord.uid
EntryUid(self) ==
    IF self.rockridge /\ self.record.px # Nothing
    THEN [err |-> None, value |-> <<self.record.px[1].gid>>]
    ELSE IF self.record.ext_attr_length = 0 THEN [err |-> None, value |-> <<0>>]
    ELSE [err |-> "NotImplementedError", value |-> <<>>]

\* ISO9660DirectoryRecord.gid and RockRidgeDirectoryRecord.gid
EntryGid(self) ==
    IF self.rockridge /\ self.record.px # Nothing
    THEN [err |-> None, value |-> <<self.record.px[1].uid>>]
    ELSE IF self.record.ext_attr_length = 0 THEN [err |-> None, value |-> <<0>>]
    ELSE [err |-> "NotImplementedError", value |-> <<>>]

\* EntryNlinks that rejects a record with an extended attribute record
EntryNlinksRejecting(self) ==
    IF self.rockridge /\ self.record.px # Nothing
    THEN [err |-> None, value |-> <<self.record.px[1].links>>]
    ELSE IF self.record.ext_attr_length = 0 THEN [err |-> None, value |-> <<1>>]
    ELSE [err |-> "NotImplementedError", value |-> <<>>]

\* DiscBaseEntry.nlinks and RockRidgeDirectoryRecord.nlinks
EntryNlinks(self) ==
    IF self.rockridge /\ self.record.px # Nothing
    THEN [err |-> None, value |-> <<self.record.px[1].links>>]
    ELSE [err |-> None, value |-> <<1>>]

\* DiscBaseEntry.inode and RockRidgeDirectoryRecord.inode
EntryInode(self) == [err |-> None, value |-> <<0>>]

\* RockRidgeDirectoryRecord._resolve_timestamps, first loop: gaps maps a
\* timestamp index to the number of unset flags counted before a set flag
RECURSIVE GapLoop(_, _, _, _, _)
GapLoop(timestamp_flags, i, gap_size, timestamp_index, gaps) ==
    IF i > Len(timestamp_flags) THEN gaps
    ELSE IF ~timestamp_flags[i]
    THEN GapLoop(timestamp_flags, i + 1, gap_size + 1, timestamp_index, gaps)
    ELSE IF gap_size > 0
    THEN GapLoop(timestamp_flags, i + 1, 0, timestamp_index + 1,
                 (timestamp_index :> gap_size) @@ gaps)
    ELSE GapLoop(timestamp_flags, i + 1, gap_size, timestamp_index, gaps)

\* RockRidgeDirectoryRecord._resolve_timestamps, second loop: the values in
\* order, each stored under RockRidgeTimestampType(effective_index)
RECURSIVE ValueLoop(_, _, _, _, _)
ValueLoop(timestamps_values, gaps, timestamp_index, effective_index, timestamps) ==
    IF timestamp_index >= Len(timestamps_values) THEN [err |-> None, timestamps |-> timestamps]
    ELSE LET e == IF timestamp_index \in DOMAIN gaps
                  THEN effective_index + gaps[timestamp_index] ELSE effective_index
         IN  IF e + 1 > Len(TimestampTypes) THEN [err |-> "ValueError", timestamps |-> timestamps]
             ELSE ValueLoop(timestamps_values, gaps, timestamp_index + 1, e + 1,
                            (TimestampTypes[e + 1] :> timestamps_values[timestamp_index + 1])
                                @@ timestamps)

\* RockRidgeDirectoryRecord._resolve_timestamps: self.timestamps afterwards
ResolveTimestamps(tf) ==
    IF tf = Nothing THEN [err |-> None, timestamps |-> <<>>]
    ELSE ValueLoop(tf[1].values, GapLoop(tf[1].flags, 1, 0, 0, <<>>), 0, 0, <<>>)

\* mtime, ctime and atime of ISO9660DirectoryRecord and, with the type they
\* look up (MODIFY, ATTRIBUTES, ACCESS), of RockRidgeDirectoryRecord
EntryTime(self, type) ==
    IF ~self.rockridge THEN [err |-> None, value |-> <<self.record.date_time>>]
    ELSE LET r == ResolveTimestamps(self.record.tf)
         IN  IF r.err # None THEN [err |-> r.err, value |-> <<>>]
             ELSE IF type \in DOMAIN r.timestamps
             THEN [err |-> None, value |-> <<r.timestamps[type]>>]
             ELSE [err |-> None, value |-> <<self.record.date_time>>]
EntryMtime(self) == EntryTime(self, "MODIFY")
EntryCtime(self) == EntryTime(self, "ATTRIBUTES")
EntryAtime(self) == EntryTime(self, "ACCESS")

(* ------------------------------- UDF entries -------------------------- *)
\* stat.S_ISUID, stat.S_ISGID, stat.S_ISVTX
S_ISUID == 2048
S_ISGID == 1024
S_ISVTX == 512

\* x >> n, x & y and x | y on unsigned integers
ShiftRight(x, n) == x \div (2 ^ n)
RECURSIVE BitAnd(_, _)
BitAnd(x, y) ==
    IF x = 0 \/ y = 0 THEN 0
    ELSE 2 * BitAnd(x \div 2, y \div 2) + (IF x % 2 = 1 /\ y % 2 = 1 THEN 1 ELSE 0)
RECURSIVE BitOr(_, _)
BitOr(x, y) ==
    IF x = 0 THEN y
    ELSE IF y = 0 THEN x
    ELSE 2 * BitOr(x \div 2, y \div 2) + (IF x % 2 = 1 \/ y % 2 = 1 THEN 1 ELSE 0)

\* udf_file_entry as UDFEntry reads it: the permissions field, the ICB tag
\* flags S_ISUID, S_ISGID and C_ISVTX, whether the file type is SYMLINK, and
\* the path components its data holds
UdfFileEntry(permissions, isuid, isgid, isvtx, symlink, components) ==
    [permissions |-> permissions, S_ISUID |-> isuid, S_ISGID |-> isgid, C_ISVTX |-> isvtx,
     symlink |-> symlink, components |-> components]

\* UdfMode without the shifts: the stored bits taken as POSIX bits
UdfModeUnshifted(entry) ==
    BitOr(BitOr(BitOr(BitOr(BitOr(
        BitAnd(entry.permissions, 7),
        BitAnd(entry.permissions, 56)),
        BitAnd(entry.permissions, 448)),
        IF entry.S_ISUID THEN S_ISUID ELSE 0),
        IF entry.S_ISGID THEN S_ISGID ELSE 0),
        IF entry.C_ISVTX THEN S_ISVTX ELSE 0)

\* UdfMode with the classes taken 3 bits apart instead of 5
UdfModePacked(entry) ==
    BitOr(BitOr(BitOr(BitOr(BitOr(
        BitAnd(ShiftRight(entry.permissions, 6), 7),
        BitAnd(entry.permissions, 56)),
        BitAnd(ShiftRight(entry.permissions, 2) * 64, 448)),
        IF entry.S_ISUID THEN S_ISUID ELSE 0),
        IF entry.S_ISGID THEN S_ISGID ELSE 0),
        IF entry.C_ISVTX THEN S_ISVTX ELSE 0)

\* UDFEntry.mode
UdfMode(entry) ==
    BitOr(BitOr(BitOr(BitOr(BitOr(
        BitAnd(entry.permissions, 7),
        BitAnd(ShiftRight(entry.permissions, 2), 56)),
        BitAnd(ShiftRight(entry.permissions, 4), 448)),
        IF entry.S_ISUID THEN S_ISUID ELSE 0),
        IF entry.S_ISGID THEN S_ISGID ELSE 0),
        IF entry.C_ISVTX THEN S_ISVTX ELSE 0)

\* udf_path_component: its type and, for an IDENTIFIER, the dchars of its
\* identifier (a compression id followed by the characters)
PathComponent(type, dchars) == [component_type |-> type, component_identifier |-> dchars]
\* read_dchars
ReadDchars(dchars) == Concat(Tail(dchars))

\* ReadlinkLoop that puts a "/" before every component
RECURSIVE ReadlinkLoopAlwaysSeparating(_, _, _)
ReadlinkLoopAlwaysSeparating(components, path, first) ==
    IF components = <<>> THEN [err |-> None, value |-> <<path>>]
    ELSE LET type == Head(components).component_type
             sep == path \o "/"
         IN  IF type = "PARENT" THEN ReadlinkLoopAlwaysSeparating(Tail(components), sep \o "..", FALSE)
             ELSE IF type = "CURDIR"
             THEN ReadlinkLoopAlwaysSeparating(Tail(components), sep \o ".", FALSE)
             ELSE IF type = "IDENTIFIER"
             THEN ReadlinkLoopAlwaysSeparating(Tail(components),
                        sep \o ReadDchars(Head(components).component_identifier), FALSE)
             ELSE IF type = "ROOT" THEN ReadlinkLoopAlwaysSeparating(Tail(components), "/", TRUE)
             ELSE [err |-> "NotImplementedError", value |-> <<>>]

\* the while loop of UDFEntry.readlink over the components left to read
RECURSIVE ReadlinkLoop(_, _, _)
ReadlinkLoop(components, path, first) ==
    IF components = <<>> THEN [err |-> None, value |-> <<path>>]
    ELSE LET type == Head(components).component_type
             sep == IF ~first THEN path \o "/" ELSE path
         IN  IF type = "PARENT" THEN ReadlinkLoop(Tail(components), sep \o "..", FALSE)
             ELSE IF type = "CURDIR" THEN ReadlinkLoop(Tail(components), sep \o ".", FALSE)
             ELSE IF type = "IDENTIFIER"
             THEN ReadlinkLoop(Tail(components),
                        sep \o ReadDchars(Head(components).component_identifier), FALSE)
             ELSE IF type = "ROOT" THEN ReadlinkLoop(Tail(components), "/", TRUE)
             ELSE [err |-> "NotImplementedError", value |-> <<>>]

\* UDFEntry.readlink
UdfReadlink(entry) ==
    IF ~entry.symlink THEN [err |-> "NotASymlinkError", value |-> <<>>]
    ELSE ReadlinkLoop(entry.components, "", TRUE)

(* ------------------- directory records, byte by byte ------------------- *)
Bytes(b, n) == [i \in 1..n |-> b]
Min(a, b) == IF a < b THEN a ELSE b

\* the bytes of a c_iso.iso_directory_record: the length byte, 31 bytes of
\* the fields up to name_len, name_len, the name, and the system use bytes
\* that make up the length
DirectoryRecordBytes(length, name) ==
    <<length>> \o Bytes(1, 31) \o <<Len(name)>> \o name \o Bytes(1, length - 33 - Len(name))

\* c_iso.iso_directory_record(bytes): the record and the bytes it takes, or
\* EOFError when the bytes end before the record does.  Every record of the
\* model has length >= name_len + 33.
ParseDirectoryRecord(bytes) ==
    IF Len(bytes) < 33 \/ Len(bytes) < 33 + bytes[33] \/ Len(bytes) < bytes[1]
    THEN [err |-> "EOFError", len |-> 0, name |-> <<>>]
    ELSE [err |-> None, len |-> bytes[1], name |-> SubSeq(bytes, 34, 33 + bytes[33])]

\* ISO9660DirectoryRecord.iterdir on the bytes fh holds from the directory's
\* extent on: block is fh.read(self.record.size); the entries yielded, each
\* with the offset it was parsed at, and the error that ends the iteration
RECURSIVE IsoIterdirLoop(_, _, _, _)
IsoIterdirLoop(fh, size, offset, yielded) ==
    LET block == SubSeq(fh, 1, Min(size, Len(fh)))
        first_byte == SubSeq(block, offset + 1, Min(offset + 1, Len(block)))
    IN  IF first_byte = <<0>> THEN [err |-> None, entries |-> yielded]
        ELSE LET record == ParseDirectoryRecord(SubSeq(block, offset + 1, Len(block)))
                 next == offset + record.len
             IN  IF record.err # None THEN [err |-> record.err, entries |-> yielded]
                 ELSE IsoIterdirLoop(fh, size, IF next % 2 # 0 THEN next + 1 ELSE next,
                                     Append(yielded, [name |-> record.name, offset |-> offset]))

(* ------------------------- System Use entries, byte by byte ------------ *)
\* the signatures of SystemUseSignature and RockRidgeSignature as bytes, SP,
\* and a signature that is none of them
Signature(name) ==
    CASE name = "CE" -> <<67, 69>>
      [] name = "PX" -> <<80, 88>>
      [] name = "NM" -> <<78, 77>>
      [] name = "TF" -> <<84, 70>>
      [] name = "SP" -> <<83, 80>>
      [] name = "CL" -> <<67, 76>>
      [] OTHER -> <<90, 90>>
SuspMagicBytes == Signature("SP") \o <<7, 1, 190, 239>>

\* a uint32_t followed by its big-endian copy, as SU_CE_s stores extent,
\* offset and size
UInt32(v) == <<v % 256, (v \div 256) % 256, (v \div 65536) % 256, v \div 16777216>>
UInt32Be(v) == <<v \div 16777216, (v \div 65536) % 256, (v \div 256) % 256, v % 256>>
BothEndian(v) == UInt32(v) \o UInt32Be(v)
ReadUInt32(bytes) == bytes[1] + 256 * bytes[2] + 65536 * bytes[3] + 16777216 * bytes[4]

\* The continuation areas of the image.  Area i lies in block extent at the
\* byte offset given, after the bytes of before; its entries are given by
\* signature, a tag that fills their data, and for a CE entry the area it
\* names (target).  Area 2 starts 4 bytes into its block, area 4 names
\* itself, areas 6 and 7 name each other.
PlanEntry(signature, tag, target) == [signature |-> signature, tag |-> tag, target |-> target]
Areas ==
    <<[extent |-> 50, offset |-> 0, before |-> <<>>, entries |-> <<PlanEntry("PX", 1, 0)>>],
      [extent |-> 51, offset |-> 4, before |-> Signature("ZZ") \o <<4, 1>>,
       entries |-> <<PlanEntry("TF", 2, 0)>>],
      [extent |-> 52, offset |-> 0, before |-> <<>>,
       entries |-> <<PlanEntry("NM", 3, 0), PlanEntry("CE", 0, 1)>>],
      [extent |-> 53, offset |-> 0, before |-> <<>>, entries |-> <<PlanEntry("CE", 0, 4)>>],
      [extent |-> 54, offset |-> 0, before |-> <<>>, entries |-> <<PlanEntry("PX", 5, 0)>>],
      [extent |-> 55, offset |-> 0, before |-> <<>>, entries |-> <<PlanEntry("CE", 0, 7)>>],
      [extent |-> 56, offset |-> 0, before |-> <<>>, entries |-> <<PlanEntry("CE", 0, 6)>>]>>

\* the length byte of an entry: SU_CE_s is 28 bytes, RR_PX_s 36
EntryLength(e) ==
    CASE e.signature = "CE" -> 28
      [] e.signature = "PX" -> 36
      [] e.signature = "TF" -> 12
      [] e.signature = "CL" -> 12
      [] OTHER -> 6
RECURSIVE PlanLength(_)
PlanLength(plan) == IF plan = <<>> THEN 0 ELSE EntryLength(Head(plan)) + PlanLength(Tail(plan))

\* the bytes of an entry: signature, length, version 1 and the data; the
\* data of a CE entry are the extent, offset and size of the area it names,
\* those of a CL entry (RR_CL_s) the block of the relocated record
EntryBytes(e) ==
    Signature(e.signature) \o <<EntryLength(e), 1>>
        \o (IF e.signature = "CE"
            THEN BothEndian(Areas[e.target].extent) \o BothEndian(Areas[e.target].offset)
                    \o BothEndian(PlanLength(Areas[e.target].entries))
            ELSE IF e.signature = "CL" THEN BothEndian(e.target)
            ELSE Bytes(e.tag, EntryLength(e) - 4))
RECURSIVE PlanBytes(_)
PlanBytes(plan) == IF plan = <<>> THEN <<>> ELSE EntryBytes(Head(plan)) \o PlanBytes(Tail(plan))

\* fh.seek(position) and fh.read(size): the bytes of the image there, zero
\* where no continuation area lies
LogicalBlockSize2048 == 2048
BlockBytes(block) ==
    IF \E i \in DOMAIN Areas : Areas[i].extent = block
    THEN LET area == Areas[CHOOSE i \in DOMAIN Areas : Areas[i].extent = block]
         IN  area.before \o PlanBytes(area.entries)
    ELSE <<>>
ReadAt(position, size) ==
    LET within == position % LogicalBlockSize2048
    IN  SubSeq(BlockBytes(position \div LogicalBlockSize2048) \o Bytes(0, within + size),
               within + 1, within + size)

\* BytesIO(system_use[initial_offset:]) and RangeStream(fh, offset, size),
\* and block.read() on them
BytesIO(bytes) == [stream |-> "BytesIO", bytes |-> bytes, offset |-> 0, size |-> Len(bytes)]
RangeStream(offset, size) == [stream |-> "RangeStream", bytes |-> <<>>, offset |-> offset, size |-> size]
ReadAll(block) ==
    IF block.stream = "BytesIO" THEN block.bytes ELSE ReadAt(block.offset, block.size)

\* self._system_use_entries[signature].append(entry) on a defaultdict(list)
AppendUnder(entries, signature, entry) ==
    IF signature \in DOMAIN entries
    THEN [entries EXCEPT ![signature] = Append(@, entry)]
    ELSE (signature :> <<entry>>) @@ entries

\* c_rockridge.rock_ridge_entry(bytes): the bytes the entry takes.  The data
\* array of an entry whose length byte is below 4 has a negative size, which
\* the structure parser reads as an empty array (lenient) or rejects.
ParseEntry(bytes, lenient) ==
    IF Len(bytes) < 4 \/ Len(bytes) < bytes[3] THEN [err |-> "EOFError", len |-> 0]
    ELSE IF bytes[3] >= 4 THEN [err |-> None, len |-> bytes[3]]
    ELSE IF lenient THEN [err |-> None, len |-> 4]
    ELSE [err |-> "ArraySizeError", len |-> 0]

\* the inner while loop of _process_system_use_area over one block:
\* self._system_use_entries and blocks afterwards
RECURSIVE ScanBlock(_, _, _, _, _)
ScanBlock(byte_copy, offset, entries, blocks, lenient) ==
    IF offset >= Len(byte_copy) \/ SubSeq(byte_copy, offset + 1, Len(byte_copy)) = <<0>>
    THEN [err |-> None, entries |-> entries, blocks |-> blocks]
    ELSE LET rest == SubSeq(byte_copy, offset + 1, Len(byte_copy))
             parsed == ParseEntry(rest, lenient)
             unparsed_entry == SubSeq(rest, 1, parsed.len)
             signature == SubSeq(rest, 1, 2)
             recorded == AppendUnder(entries, signature, unparsed_entry)
         IN  IF parsed.err # None
             THEN [err |-> parsed.err, entries |-> entries, blocks |-> blocks]
             ELSE IF signature # Signature("CE")
             THEN ScanBlock(byte_copy, offset + parsed.len, recorded, blocks, lenient)
             ELSE IF parsed.len < 28
             THEN [err |-> "EOFError", entries |-> recorded, blocks |-> blocks]
             ELSE ScanBlock(byte_copy, offset + parsed.len, recorded,
                            Append(blocks,
                                   RangeStream(ReadUInt32(SubSeq(unparsed_entry, 5, 8))
                                                    * LogicalBlockSize2048,
                                               ReadUInt32(SubSeq(unparsed_entry, 21, 24)))),
                            lenient)

\* _process_system_use_area up to its outer loop: the first block, taken
\* from the record's system use bytes
StartsWith(bytes, prefix) ==
    Len(bytes) >= Len(prefix) /\ SubSeq(bytes, 1, Len(prefix)) = prefix
InitialBlock(record) ==
    LET magic == IF StartsWith(record.system_use, SuspMagicBytes) THEN Len(SuspMagicBytes) + 1 ELSE 0
        initial_offset == IF record.name_len % 2 = 0 THEN magic + 1 ELSE magic
    IN  BytesIO(SubSeq(record.system_use, initial_offset + 1, Len(record.system_use)))

(* ----------------------- UDF volume descriptor sequence ---------------- *)
\* a sector of the main volume descriptor sequence: the identifier of its
\* udf_tag and, for a Partition Descriptor, its partition_number
Descriptor(identifier, partition_number) ==
    [identifier |-> identifier, partition_number |-> partition_number]

\* The while loop of UDFDisc._load_volume_descriptors from sector i of the
\* sequence on, and the two tests after it.  lvd is
\* self.logical_volume_descriptor (the index of the descriptor, if any), ppm
\* is self._physical_partition_map.  Past the last sector of the image the
\* tag cannot be read.
RECURSIVE UdfLoadVolumeDescriptors(_, _, _, _)
UdfLoadVolumeDescriptors(sectors, i, lvd, ppm) ==
    IF i > Len(sectors) THEN [err |-> "EOFError", lvd |-> lvd, ppm |-> ppm]
    ELSE IF sectors[i].identifier = "PD" /\ Cardinality(DOMAIN ppm) > 1
    THEN [err |-> "NotImplementedError", lvd |-> lvd, ppm |-> ppm]
    ELSE IF sectors[i].identifier = "PD"
    THEN UdfLoadVolumeDescriptors(sectors, i + 1, lvd,
                                  (sectors[i].partition_number :> i) @@ ppm)
    ELSE IF sectors[i].identifier = "LVD"
    THEN UdfLoadVolumeDescriptors(sectors, i + 1, Some(i), ppm)
    ELSE IF sectors[i].identifier # "TD"
    THEN UdfLoadVolumeDescriptors(sectors, i + 1, lvd, ppm)
    ELSE IF lvd = Nothing
    THEN [err |-> "ValueError: No Logical Volume Descriptor found", lvd |-> lvd, ppm |-> ppm]
    ELSE IF DOMAIN ppm = {}
    THEN [err |-> "ValueError: No Partition Descriptor found", lvd |-> lvd, ppm |-> ppm]
    ELSE [err |-> None, lvd |-> lvd, ppm |-> ppm]

(* ------------------------------ UDF partitions ------------------------- *)
\* c_udf.udf_map_entry
MapEntry(original_location, mapped_location) ==
    [original_location |-> original_location, mapped_location |-> mapped_location]

\* UDFSparablePartition.__init__: self.remappings after the loop over the
\* map entries of the sparing table
RECURSIVE Remappings(_, _)
Remappings(mappings_buf, remappings) ==
    IF mappings_buf = <<>> THEN remappings
    ELSE Remappings(Tail(mappings_buf),
                    (Head(mappings_buf).original_location :> Head(mappings_buf).mapped_location)
                        @@ remappings)

\* UDFPartition.open_extent: the RangeStream over fh
PartitionOpenExtent(self, logical_block_num, length) ==
    [err |-> None,
     value |-> <<RangeStream(self.partition_starting_location * self.sector_size
                                + logical_block_num * self.sector_size,
                             length)>>]

\* UDFSparablePartition.open_extent
SparableOpenExtent(self, logical_block_num, length) ==
    IF \/ logical_block_num \in DOMAIN self.remappings
       \/ \E k \in DOMAIN self.remappings : self.remappings[k] = logical_block_num
    THEN IF logical_block_num \in DOMAIN self.remappings
         THEN [err |-> "NotImplementedError", value |-> <<>>]
         ELSE [err |-> "KeyError", value |-> <<>>]
    ELSE PartitionOpenExtent(self, logical_block_num, length)

(* ------------------------------ UDF extents ---------------------------- *)
\* c_udf.udf_short_allocation_descriptor and udf_long_allocation_descriptor,
\* as the bytes on the disc
UInt16(v) == <<v % 256, v \div 256>>
ShortAdBytes(ad) == UInt32(ad.extent_length) \o UInt32(ad.extent_position)
LongAdBytes(ad) ==
    UInt32(ad.extent_length) \o UInt32(ad.logical_block_number)
        \o UInt16(ad.partition_reference_number) \o Bytes(0, 6)
AdSize(allocation_type) == IF allocation_type = "short_descriptors" THEN 8 ELSE 16

\* UDFPartition over the physical partition that starts at the given sector
UdfPartition(partition_starting_location) ==
    [partition_starting_location |-> partition_starting_location, sector_size |-> 2048]

\* UDFEntry._load_extents: the descriptors are read from the buffer until
\* the position reaches length_of_allocation_descriptors; a descriptor read
\* past the end of the buffer raises EOFError
RECURSIVE LoadExtentsLoop(_, _, _)
LoadExtentsLoop(self, tell, extents) ==
    LET buf == self.entry.allocation_descriptors
        size == AdSize(self.allocation_type)
        ad == SubSeq(buf, tell + 1, tell + size)
        extent ==
            IF self.allocation_type = "short_descriptors"
            THEN [partition |-> self.partition,
                  extent_position |-> ReadUInt32(SubSeq(ad, 5, 8)),
                  extent_length |-> ReadUInt32(SubSeq(ad, 1, 4))]
            ELSE [partition |-> self.disc.partition_map[ad[9] + 256 * ad[10]],
                  extent_position |-> ReadUInt32(SubSeq(ad, 5, 8)),
                  extent_length |-> ReadUInt32(SubSeq(ad, 1, 4))]
    IN  IF Len(buf) - tell < size THEN [err |-> "EOFError", extents |-> extents]
        ELSE IF tell + size >= self.entry.length_of_allocation_descriptors
             THEN [err |-> None, extents |-> Append(extents, extent)]
             ELSE LoadExtentsLoop(self, tell + size, Append(extents, extent))

LoadExtents(self) ==
    IF self.allocation_type \in {"short_descriptors", "long_descriptors"}
    THEN LoadExtentsLoop(self, 0, <<>>)
    ELSE [err |-> "ValueError", extents |-> <<>>]

\* dissect.util MappingStream after the stream.add calls of UDFEntry.open
MappingStream(size, runs) == [stream |-> "MappingStream", size |-> size, runs |-> runs]

RECURSIVE AddExtents(_, _, _)
AddExtents(extents, offset, runs) ==
    IF extents = <<>> THEN runs
    ELSE LET e == Head(extents)
         IN  AddExtents(Tail(extents), offset + e.extent_length,
                        Append(runs, [offset |-> offset, size |-> e.extent_length,
                                      stream |-> PartitionOpenExtent(e.partition, e.extent_position,
                                                                     e.extent_length).value[1]]))

\* UDFEntry.open
UdfOpen(self, open_as_directory) ==
    IF self.is_dir /\ ~open_as_directory THEN [err |-> "NotAFileError", value |-> <<>>]
    ELSE IF self.allocation_type = "embedded"
    THEN [err |-> None, value |-> <<BytesIO(self.entry.allocation_descriptors)>>]
    ELSE LET loaded == LoadExtents(self)
         IN  IF loaded.err # None THEN [err |-> loaded.err, value |-> <<>>]
             ELSE [err |-> None,
                   value |-> <<MappingStream(self.size, AddExtents(loaded.extents, 0, <<>>))>>]

(* ------------------------ the shared file handle ----------------------- *)
\* a directory record with the given System Use bytes
RecordWithSystemUse(name, system_use) ==
    <<33 + Len(name) + Len(system_use)>> \o Bytes(1, 31) \o <<Len(name)>> \o name \o system_use

\* the record a CL entry of the image names, in block 62
RelocatedRecordBytes == RecordWithSystemUse(<<82>>, PlanBytes(<<PlanEntry("PX", 7, 0)>>))

\* The image behind the one file handle of a disc: the two directories the
\* iterators read in blocks 60 and 61, the relocated record in block 62, a
\* file in block 70, the ICBs of the UDF entries in blocks 72 to 74 and the
\* continuation areas; zero bytes elsewhere.
StreamBlockBytes(disc, block) ==
    CASE block \in {60, 61} -> disc.dirs[block - 59].fh
      [] block = 62 -> RelocatedRecordBytes
      [] block = 70 -> <<104, 105, 33>>
      [] block \in 72..74 -> <<5, 1, block, 0, 0, 0, 0, 0>>
      [] OTHER -> BlockBytes(block)

\* fh.seek(position) taken from where fh stands
SeekFromCurrent(pos, position) == pos + position

\* fh.seek(position): the position of fh afterwards
Seek(pos, position) == position

\* fh.read(size) with fh at pos: the bytes read and the position afterwards
Read(disc, pos, size) ==
    LET within == pos % LogicalBlockSize2048
    IN  [bytes |-> SubSeq(StreamBlockBytes(disc, pos \div LogicalBlockSize2048)
                            \o Bytes(0, within + size),
                          within + 1, within + size),
         pos |-> pos + size]

\* block.read() in _process_system_use_area: a RangeStream block seeks fh
\* to its offset and reads its size, a BytesIO block leaves fh alone
ReadBlock(disc, block, pos) ==
    IF block.stream = "BytesIO" THEN [bytes |-> block.bytes, pos |-> pos]
    ELSE Read(disc, Seek(pos, block.offset), block.size)

\* _process_system_use_area with the file handle's position: the outer
\* loop pops a block, reads it and scans it, until no block is left
RECURSIVE ProcessSystemUseArea(_, _, _, _)
ProcessScanned(disc, scan, pos) ==
    IF scan.err # None THEN [err |-> scan.err, entries |-> scan.entries, pos |-> pos]
    ELSE ProcessSystemUseArea(disc, scan.blocks, scan.entries, pos)
ProcessRead(disc, blocks, entries, read) ==
    ProcessScanned(disc, ScanBlock(read.bytes, 0, entries, blocks, TRUE), read.pos)
ProcessSystemUseArea(disc, blocks, entries, pos) ==
    IF blocks = <<>> THEN [err |-> None, entries |-> entries, pos |-> pos]
    ELSE ProcessRead(disc, Tail(blocks), entries, ReadBlock(disc, Head(blocks), pos))

\* SystemUseSharingProtocolDirectoryRecord.__init__ on the bytes of a record
SystemUseEntries(disc, bytes, pos) ==
    ProcessSystemUseArea(
        disc,
        <<InitialBlock([name_len |-> bytes[33],
                        system_use |-> SubSeq(bytes, 34 + bytes[33], Len(bytes))])>>,
        <<>>, pos)

\* c_iso.iso_directory_record(self.fs.fh): the 33 bytes up to name_len, then
\* the name and the system use bytes that make up the length
ReadRecordBody(disc, head) ==
    LET size == IF head.bytes[1] - 33 > head.bytes[33] THEN head.bytes[1] - 33
                ELSE head.bytes[33]
    IN  [bytes |-> head.bytes \o Read(disc, head.pos, size).bytes, pos |-> head.pos + size]
ReadRecord(disc, pos) == ReadRecordBody(disc, Read(disc, pos, 33))

\* the entry after its constructor ran: the name stays the one found first
ConstructedEntry(name, made) ==
    [err |-> made.err, name |-> name, entries |-> made.entries, pos |-> made.pos]
InitFromRecord(disc, record) == SystemUseEntries(disc, record.bytes, record.pos)

\* RockRidgeDirectoryRecord._resolve_relocation: with a CL entry, fh seeks
\* to the block it names, the record is parsed from fh and the entry is
\* initialised again from that record, keeping its name
ResolveRelocationAt(disc, name, made) ==
    IF made.err # None \/ Signature("CL") \notin DOMAIN made.entries
    THEN ConstructedEntry(name, made)
    ELSE ConstructedEntry(
            name,
            InitFromRecord(
                disc,
                ReadRecord(disc,
                           Seek(made.pos,
                                LogicalBlockSize2048
                                    * ReadUInt32(SubSeq(made.entries[Signature("CL")][1], 5, 8))))))

\* type(self)(self.fs, record, self) in iterdir: ISO9660DirectoryRecord
\* reads nothing, RockRidgeDirectoryRecord reads the continuation areas
\* and the relocated record
StreamEntry(offset, made) ==
    [err |-> made.err, pos |-> made.pos,
     entry |-> [name |-> made.name, offset |-> offset, entries |-> made.entries]]
MakeStreamEntry(disc, bytes, name, offset, pos) ==
    IF disc.format = "rockridge"
    THEN StreamEntry(offset, ResolveRelocationAt(disc, name, SystemUseEntries(disc, bytes, pos)))
    ELSE StreamEntry(offset, [err |-> None, name |-> name, entries |-> <<>>, pos |-> pos])

\* an iterdir() generator that was created and not yet advanced
NewIterator ==
    [started |-> FALSE, block |-> <<>>, offset |-> 0, yielded |-> <<>>, done |-> FALSE,
     err |-> None, interrupted |-> FALSE]

\* next() on the generator of ISO9660DirectoryRecord.iterdir over directory
\* i: the first call seeks to the extent and reads the block, every call
\* runs up to the next yield, the end of the loop or an error
IsoIterdirStep(disc, i, it, pos) ==
    LET opened == IF it.started THEN [bytes |-> it.block, pos |-> pos]
                  ELSE Read(disc, Seek(pos, LogicalBlockSize2048 * (59 + i)), disc.dirs[i].size)
        block == opened.bytes
        at == [it EXCEPT !.started = TRUE, !.block = block]
        first_byte == SubSeq(block, it.offset + 1, Min(it.offset + 1, Len(block)))
        record == ParseDirectoryRecord(SubSeq(block, it.offset + 1, Len(block)))
        next == it.offset + record.len
        made == MakeStreamEntry(disc, SubSeq(block, it.offset + 1, it.offset + record.len),
                                record.name, it.offset, opened.pos)
    IN  IF first_byte = <<0>> THEN [it |-> [at EXCEPT !.done = TRUE], pos |-> opened.pos]
        ELSE IF record.err # None
        THEN [it |-> [at EXCEPT !.done = TRUE, !.err = record.err], pos |-> opened.pos]
        ELSE IF made.err # None
        THEN [it |-> [at EXCEPT !.done = TRUE, !.err = made.err], pos |-> made.pos]
        ELSE [it |-> [at EXCEPT !.yielded = Append(@, made.entry),
                                !.offset = IF next % 2 # 0 THEN next + 1 ELSE next],
              pos |-> made.pos]

\* a udf_file_identifier_descriptor: 16 bytes of tag, the version, the
\* characteristics, the identifier's length, the long_ad of the ICB (8
\* bytes in the block given, partition reference 0), no implementation
\* use, the identifier, and the padding to a multiple of 4
FidBytes(name, icb_block) ==
    LET fid == Bytes(2, 16) \o <<1, 0>> \o <<0>> \o <<Len(name)>>
                \o LongAdBytes([extent_length |-> 8, logical_block_number |-> icb_block,
                                partition_reference_number |-> 0])
                \o <<0, 0>> \o name
    IN  fid \o Bytes(0, (4 - (Len(fid) % 4)) % 4)

\* the sector the UDF partition of the image starts at
UdfPartitionStart == 40

\* stream.read(size) on the MappingStream of a directory whose one extent
\* starts at base: the RangeStream under it seeks fh to its own offset and
\* reads; the stream ends at the directory's size
StreamReadAt(disc, base, size_of_stream, offset, size, pos) ==
    Read(disc, Seek(pos, base + offset), Min(size, size_of_stream - offset))

\* next() on the generator of UDFEntry.iterdir over directory i, whose
\* extent is logical block 19 + i of the partition: it.offset is
\* stream.tell(), it.started says that the first descriptor was skipped
RECURSIVE UdfIterdirStep(_, _, _, _)
UdfIterdirStep(disc, i, it, pos) ==
    LET size == disc.dirs[i].size
        base == (UdfPartitionStart + 19 + i) * LogicalBlockSize2048
        fixed == StreamReadAt(disc, base, size, it.offset, 38, pos)
        rest == StreamReadAt(disc, base, size, it.offset + 38,
                             fixed.bytes[20] + fixed.bytes[37] + 256 * fixed.bytes[38],
                             fixed.pos)
        end == it.offset + 38 + Len(rest.bytes)
        aligned == end + ((4 - (end % 4)) % 4)
        padding == StreamReadAt(disc, base, size, end, aligned - end, rest.pos)
        icb_block == ReadUInt32(SubSeq(fixed.bytes, 25, 28))
        icb == Read(disc, Seek(padding.pos, (UdfPartitionStart + icb_block) * LogicalBlockSize2048),
                    ReadUInt32(SubSeq(fixed.bytes, 21, 24)))
    IN  IF it.offset >= size THEN [it |-> [it EXCEPT !.done = TRUE], pos |-> pos]
        ELSE IF Len(fixed.bytes) < 38
        THEN [it |-> [it EXCEPT !.done = TRUE, !.err = "EOFError"], pos |-> fixed.pos]
        ELSE IF Len(rest.bytes) < fixed.bytes[20] + fixed.bytes[37] + 256 * fixed.bytes[38]
        THEN [it |-> [it EXCEPT !.done = TRUE, !.err = "EOFError"], pos |-> rest.pos]
        ELSE IF ~it.started
        THEN UdfIterdirStep(disc, i, [it EXCEPT !.started = TRUE, !.offset = aligned], padding.pos)
        ELSE [it |-> [it EXCEPT
                        !.offset = aligned,
                        !.yielded = Append(@, [name |-> SubSeq(rest.bytes,
                                                               Len(rest.bytes) - fixed.bytes[20] + 1,
                                                               Len(rest.bytes)),
                                               offset |-> it.offset,
                                               entries |-> icb.bytes])],
              pos |-> icb.pos]

\* next() on an iterdir() generator of the disc's format
IterdirStep(disc, i, it, pos) ==
    IF disc.format = "udf" THEN UdfIterdirStep(disc, i, it, pos)
    ELSE IsoIterdirStep(disc, i, it, pos)

\* the generator run to its end with nothing in between, as the loop of get
\* and list(entry.iterdir()) run it
RECURSIVE RunAlone(_, _, _, _)
RunOn(disc, i, step) == RunAlone(disc, i, step.it, step.pos)
RunAlone(disc, i, it, pos) ==
    IF it.done THEN [it |-> it, pos |-> pos]
    ELSE RunOn(disc, i, IterdirStep(disc, i, it, pos))

(* -------------------------------- inputs ------------------------------- *)
SeqUpTo(S, n) == UNION {[1..k -> S] : k \in 0..n}
Range(s) == {s[i] : i \in DOMAIN s}
Count(s, x) == Cardinality({i \in DOMAIN s : s[i] = x})

\* what follows the root record: no SUSP magic, or the magic and the ER
\* entry (if any) of the root's first record
SystemUseAreas ==
    {[susp |-> "000000", er |-> Nothing]}
    \cup {[susp |-> SUSP_MAGIC, er |-> e] :
            e \in {Nothing} \cup {Some(m) : m \in ROCKRIDGE_MAGICS \cup {"XA_EXT"}}}

Image(vds, after, sua, vid, root, sub, exact) ==
    [vds |-> vds, after_vds |-> after, susp |-> sua.susp, er |-> sua.er, volume_id |-> vid,
     logical_block_size |-> 2048, root |-> root, sub |-> sub, exact |-> exact,
     path_table_extra |-> <<>>]

\* how the descriptor set ends and what follows it: a set terminator
\* followed by a UDF recognition sequence or by nothing of note, the UDF
\* recognition sequence with no terminator before it, or the end of the
\* image
DescriptorTails ==
    {[vds |-> <<EndVD>>, after |-> a] : a \in {"BEA01", "00000"}}
    \cup {[vds |-> <<ForeignVD>>, after |-> "BEA01"], [vds |-> <<>>, after |-> "00000"]}

\* images that differ in what the probes see, over one directory tree
ProbeImages ==
    {Image(pre \o tail.vds, tail.after, sua, vid, <<NodeA, NodeF1>>, <<NodeF3>>, FALSE) :
        pre \in SeqUpTo({PrimaryVD, JolietVD, OtherVD}, MaxVD),
        tail \in DescriptorTails,
        sua \in SystemUseAreas,
        vid \in {<<"CDROM">>, <<>>}}

\* the directory trees: the root's children in any order (a directory at
\* most once), the children of directory A, and whether A's records fill
\* its extent exactly
RootLists ==
    {r \in SeqUpTo({NodeA, NodeR, NodeC, NodeF1, NodeF2}, MaxEntries) :
        Count(r, NodeA) <= 1 /\ Count(r, NodeR) <= 1 /\ Count(r, NodeC) <= 1}
SubLists(r) ==
    IF NodeA \in Range(r) THEN SeqUpTo({NodeF3, NodeF4}, MaxEntries - 1) ELSE {<<>>}
TreeImages ==
    UNION {{Image(<<PrimaryVD, JolietVD, EndVD>>, "00000",
                  [susp |-> SUSP_MAGIC, er |-> Some("RRIP_1991A")], <<"CDROM">>, r, sb, ex) :
                sb \in SubLists(r), ex \in IF NodeA \in Range(r) THEN BOOLEAN ELSE {FALSE}} :
           r \in RootLists}

\* images whose path table has one more entry, for a directory "a" at the
\* block of A: below the table's second entry, or with a parent number
\* beyond the end of the table
ExtraPathEntries == {<<PathTableEntry("a", 2, 21)>>, <<PathTableEntry("a", 9, 21)>>}
PathTableImages ==
    {[img EXCEPT !.path_table_extra = x] :
        img \in {t \in TreeImages : t.sub = <<>> /\ ~t.exact}, x \in ExtraPathEntries}

Images == ProbeImages \cup TreeImages \cup PathTableImages

\* the paths a caller passes: up to MaxDepth names joined by "/", with a
\* leading and a trailing "/" or without
Names == {"A", "a", "c", "F"}
RECURSIVE Joined(_)
Joined(c) ==
    IF c = <<>> THEN <<>>
    ELSE IF Len(c) = 1 THEN c
    ELSE <<Head(c), "/">> \o Joined(Tail(c))
Paths ==
    UNION {{Joined(c), <<"/">> \o Joined(c), <<"/">> \o Joined(c) \o <<"/">>} :
           c \in SeqUpTo(Names, MaxDepth)}

(* ----------------------------- state machine --------------------------- *)
VARIABLES status, image, preference, error, iso_format, primary_volumes, name_encoding,
          logs, path_table, result, call

vars == <<status, image, preference, error, iso_format, primary_volumes, name_encoding,
          logs, path_table, result, call>>

\* call is a call on an object built apart from an opened disc: the object,
\* whether the call was made, and what it returned or raised
NoCall == [on |-> "none", object |-> <<>>, done |-> FALSE, err |-> None, value |-> <<>>]

NoImage == Image(<<>>, "00000", [susp |-> "000000", er |-> Nothing], <<>>, <<>>, <<>>, FALSE)
NoResult ==
    [op |-> "none", path |-> <<>>, use_path_table |-> FALSE, err |-> None, entry |-> Nothing,
     value |-> <<>>]

Init ==
    /\ status = "closed"
    /\ image = NoImage
    /\ preference = None
    /\ error = None
    /\ iso_format = None
    /\ primary_volumes = EmptyVolumes
    /\ name_encoding = "utf-8"
    /\ logs = <<>>
    /\ path_table = Nothing
    /\ result = NoResult
    /\ call = NoCall

\* DISC(fh, preference)
Open(img, pref) ==
    /\ status = "closed"
    /\ image' = img
    /\ preference' = pref
    /\ \E d \in {DiscInit(img, pref)} :
        /\ status' = IF d.err = None THEN "open" ELSE "failed"
        /\ error' = d.err
        /\ iso_format' = d.fmt
        /\ primary_volumes' = d.pv
        /\ name_encoding' = d.encoding
        /\ logs' = d.logs
    /\ UNCHANGED <<path_table, result, call>>

\* disc.get(path, use_path_table), called when the caller holds no result
Get(path, use_path_table) ==
    /\ status = "open"
    /\ result.op = "none"
    /\ \E g \in {DiscGet(image, iso_format, path_table, path, use_path_table)} :
        /\ result' = [op |-> "get", path |-> path, use_path_table |-> use_path_table,
                      err |-> g.err, entry |-> g.entry, value |-> <<>>]
        /\ path_table' = g.cache
    /\ UNCHANGED <<status, image, preference, error, iso_format, primary_volumes,
                   name_encoding, logs, call>>

\* the caller drops the result and the entry of its last call
Release ==
    /\ status = "open"
    /\ result.op # "none"
    /\ result' = NoResult
    /\ UNCHANGED <<status, image, preference, error, iso_format, primary_volumes,
                   name_encoding, logs, path_table, call>>

\* a call on the entry the last get returned
OnEntry(op, outcome) ==
    /\ status = "open"
    /\ result.entry # Nothing
    /\ result' = [op |-> op, path |-> <<>>, use_path_table |-> FALSE, err |-> outcome.err,
                  entry |-> result.entry, value |-> outcome.value]
    /\ UNCHANGED <<status, image, preference, error, iso_format, primary_volumes,
                   name_encoding, logs, path_table, call>>

\* list(entry.iterdir())
IterdirCall ==
    /\ result.entry # Nothing
    /\ \E it \in {Iterdir(image, result.entry[1])} :
          OnEntry("iterdir", [err |-> it.err, value |-> it.entries])

\* entry.listdir()
ListdirCall ==
    /\ result.entry # Nothing
    /\ OnEntry("listdir", Listdir(image, result.entry[1]))

\* entry.open()
OpenCall ==
    /\ result.entry # Nothing
    /\ OnEntry("open", EntryOpen(image, iso_format, result.entry[1]))

\* entry.mode
ModeCall ==
    /\ result.entry # Nothing
    /\ OnEntry("mode", EntryMode(result.entry[1]))

\* entry.uid, entry.gid, entry.nlinks, entry.inode
UidCall ==
    /\ result.entry # Nothing
    /\ OnEntry("uid", EntryUid(result.entry[1]))
GidCall ==
    /\ result.entry # Nothing
    /\ OnEntry("gid", EntryGid(result.entry[1]))
NlinksCall ==
    /\ result.entry # Nothing
    /\ OnEntry("nlinks", EntryNlinks(result.entry[1]))
InodeCall ==
    /\ result.entry # Nothing
    /\ OnEntry("inode", EntryInode(result.entry[1]))

\* entry.mtime, entry.ctime, entry.atime
MtimeCall ==
    /\ result.entry # Nothing
    /\ OnEntry("mtime", EntryMtime(result.entry[1]))
CtimeCall ==
    /\ result.entry # Nothing
    /\ OnEntry("ctime", EntryCtime(result.entry[1]))
AtimeCall ==
    /\ result.entry # Nothing
    /\ OnEntry("atime", EntryAtime(result.entry[1]))

Next ==
    \/ status = "closed" /\ \E img \in Images, pref \in Preferences : Open(img, pref)
    \/ (status = "open" /\ result.op = "none")
            /\ \E path \in Paths, use_path_table \in BOOLEAN : Get(path, use_path_table)
    \/ Release
    \/ IterdirCall
    \/ ListdirCall
    \/ OpenCall
    \/ ModeCall
    \/ UidCall
    \/ GidCall
    \/ NlinksCall
    \/ InodeCall
    \/ MtimeCall
    \/ CtimeCall
    \/ AtimeCall

Spec == Init /\ [][Next]_vars

(* ------------------- entries built apart from a disc ------------------- *)
\* the UDF file entries: every permissions value up to bit MaxPermBit, with
\* or without bit 30, under every combination of the three ICB flags
Permissions ==
    {low + high : low \in 0..(2 ^ (MaxPermBit + 1) - 1), high \in {0, 2 ^ 30}}
ModeEntries ==
    {UdfFileEntry(perm, isuid, isgid, isvtx, FALSE, <<>>) :
        perm \in Permissions, isuid \in BOOLEAN, isgid \in BOOLEAN, isvtx \in BOOLEAN}

\* the UDF symlinks: up to MaxComponents path components, and one entry
\* that is not a symlink
PathComponents ==
    {PathComponent(t, <<>>) : t \in {"ROOT", "PARENT", "CURDIR", "PATH_ROOT"}}
    \cup {PathComponent("IDENTIFIER", <<8, n>>) : n \in {"a", "b"}}
SymlinkEntries ==
    {UdfFileEntry(420, FALSE, FALSE, FALSE, TRUE, c) : c \in SeqUpTo(PathComponents, MaxComponents)}
    \cup {UdfFileEntry(420, FALSE, FALSE, FALSE, FALSE, <<PathComponent("PARENT", <<>>)>>)}

\* the Rock Ridge records with a TF entry: every combination of the flags
TimestampRecords ==
    {[Rec("F", ";1", FALSE, 40, 11, "F", FALSE, Nothing) EXCEPT !.tf = Some(TF(flags))] :
        flags \in [1..7 -> BOOLEAN]}

\* directories as bytes: up to MaxEntries records of 34, 35 or 36 bytes, each
\* at an even offset, followed by 0, 1 or 2 zero bytes inside the directory
\* and, outside it, by what fh holds next: another record, or nothing
RecordKinds == {[length |-> 34, name |-> <<65>>], [length |-> 35, name |-> <<66>>],
                [length |-> 36, name |-> <<67, 68>>]}
RECURSIVE LayOut(_)
LayOut(records) ==
    IF records = <<>> THEN <<>>
    ELSE DirectoryRecordBytes(Head(records).length, Head(records).name)
            \o (IF Head(records).length % 2 # 0 /\ Tail(records) # <<>> THEN <<0>> ELSE <<>>)
            \o LayOut(Tail(records))
Directories ==
    {[records |-> records,
      size |-> Len(LayOut(records)) + padding,
      fh |-> LayOut(records) \o Bytes(0, padding) \o after] :
        records \in SeqUpTo(RecordKinds, MaxEntries),
        padding \in 0..2,
        after \in {<<>>, DirectoryRecordBytes(34, <<90>>)}}

\* records with a System Use Area: after the padding byte of an even name
\* length and the SP entry, if any, up to MaxEntries entries, among them CE
\* entries for the areas of the image, and 0, 1, 2 or 5 zero bytes
PlanEntries ==
    {PlanEntry("PX", 9, 0), PlanEntry("NM", 8, 0)}
        \cup {PlanEntry("CE", 0, i) : i \in DOMAIN Areas}
SystemUseRecords ==
    {[name_len |-> name_len,
      plan |-> plan,
      padding |-> padding,
      system_use |-> (IF name_len % 2 = 0 THEN <<0>> ELSE <<>>)
                        \o sp \o PlanBytes(plan) \o Bytes(0, padding)] :
        name_len \in {1, 2},
        sp \in {<<>>, SuspMagicBytes \o <<0>>},
        plan \in SeqUpTo(PlanEntries, MaxEntries),
        padding \in {0, 1, 2, 5}}

\* main volume descriptor sequences: up to MaxDescriptors sectors, each a
\* PVD, an LVD, a PD for partition 0 or 1, a TD or a USD
Descriptors ==
    {Descriptor(id, 0) : id \in {"PVD", "LVD", "PD", "TD", "USD"}} \cup {Descriptor("PD", 1)}
DescriptorSequences == SeqUpTo(Descriptors, MaxDescriptors)

\* sparable partitions, by where the partition starts, the sector size and
\* up to MaxEntries map entries of the sparing table, and the extents read
\* from them
MapEntries == {MapEntry(o, m) : o \in {3, 5}, m \in {5, 8, 9}}
SparablePartitions ==
    {[partition_starting_location |-> start, sector_size |-> sector_size,
      mappings_buf |-> buf, remappings |-> Remappings(buf, <<>>)] :
        start \in {0, 257}, sector_size \in {512, 2048}, buf \in SeqUpTo(MapEntries, MaxEntries)}
ExtentReads ==
    {[partition |-> partition, logical_block_num |-> block, length |-> length] :
        partition \in SparablePartitions, block \in 0..MaxBlock, length \in {0, 100, 2048}}

\* UDF entries with up to MaxExtents allocation descriptors, short or long,
\* and entries whose content is embedded in the file entry
AllocationDescriptors ==
    {[extent_length |-> length, extent_position |-> position, logical_block_number |-> position,
      partition_reference_number |-> ref] :
        length \in {0, 100, 2048}, position \in {1, 2}, ref \in {0, 1}}
RECURSIVE AdBytes(_, _)
AdBytes(allocation_type, ads) ==
    IF ads = <<>> THEN <<>>
    ELSE (IF allocation_type = "short_descriptors" THEN ShortAdBytes(Head(ads))
          ELSE LongAdBytes(Head(ads))) \o AdBytes(allocation_type, Tail(ads))
RECURSIVE SumLengths(_)
SumLengths(ads) == IF ads = <<>> THEN 0 ELSE Head(ads).extent_length + SumLengths(Tail(ads))
UdfPartitionMap == (0 :> UdfPartition(257)) @@ (1 :> UdfPartition(1000))
DescriptorLists(allocation_type) ==
    {a \in SeqUpTo(AllocationDescriptors, MaxExtents) :
        \A i \in DOMAIN a :
            /\ allocation_type = "short_descriptors" => a[i].partition_reference_number = 0
            /\ i > 1 => a[i].extent_position = 2}
UdfEntryOf(is_dir, allocation_type, ads, content) ==
    [disc |-> [partition_map |-> UdfPartitionMap], partition |-> UdfPartitionMap[0],
     is_dir |-> is_dir, allocation_type |-> allocation_type, descriptors |-> ads,
     size |-> IF ads = <<>> THEN Len(content) ELSE SumLengths(ads),
     entry |-> [allocation_descriptors |-> content,
                length_of_allocation_descriptors |-> Len(content)]]
UdfEntries ==
    UNION {{UdfEntryOf(is_dir, allocation_type, ads, AdBytes(allocation_type, ads)) :
                is_dir \in BOOLEAN, ads \in DescriptorLists(allocation_type)} :
            allocation_type \in {"short_descriptors", "long_descriptors"}}
    \cup {UdfEntryOf(FALSE, allocation_type, <<>>, content) :
            allocation_type \in {"embedded", "extended_descriptors"},
            content \in {<<>>, <<104, 105>>}}

\* discs read through one file handle: a format and two different
\* directories.  ISO 9660 and Joliet directories hold up to MaxEntries
\* records and one zero byte or none after them; Rock Ridge records carry
\* nothing, a chain of two continuation areas, or a relocation; UDF directories
\* hold the parent's descriptor and up to MaxEntries more.
RECURSIVE Flatten(_)
Flatten(seqs) == IF seqs = <<>> THEN <<>> ELSE Head(seqs) \o Flatten(Tail(seqs))
RockRidgeRecordKinds ==
    {RecordWithSystemUse(<<65>>, <<>>),
     RecordWithSystemUse(<<67>>, PlanBytes(<<PlanEntry("CE", 0, 3)>>)),
     RecordWithSystemUse(<<68>>, PlanBytes(<<PlanEntry("CL", 0, 62)>>))}
FidKinds == {FidBytes(<<8, 65>>, 32), FidBytes(<<8, 66, 67>>, 33), FidBytes(<<8, 68>>, 34)}
StreamDirectories(format) ==
    CASE format \in {"iso9660", "joliet"} ->
            {[fh |-> LayOut(records) \o Bytes(0, padding), size |-> Len(LayOut(records)) + padding] :
                records \in SeqUpTo({k \in RecordKinds : k.length < 36}, MaxEntries) \ {<<>>},
                padding \in {0, 1}}
      [] format = "rockridge" ->
            {[fh |-> Flatten(records) \o <<0>>, size |-> Len(Flatten(records)) + 1] :
                records \in SeqUpTo(RockRidgeRecordKinds, MaxEntries) \ {<<>>}}
      [] OTHER ->
            {[fh |-> FidBytes(<<>>, 31) \o Flatten(fids), size |-> Len(FidBytes(<<>>, 31) \o Flatten(fids))] :
                fids \in SeqUpTo(FidKinds, MaxEntries) \ {<<>>}}
StreamDiscs ==
    UNION {{[format |-> format, dirs |-> <<d1, d2>>] :
                d1 \in StreamDirectories(format), d2 \in StreamDirectories(format)} :
            format \in {"iso9660", "joliet", "rockridge", "udf"}}

InitEntry ==
    /\ status = "closed"
    /\ image = NoImage
    /\ preference = None
    /\ error = None
    /\ iso_format = None
    /\ primary_volumes = EmptyVolumes
    /\ name_encoding = "utf-8"
    /\ logs = <<>>
    /\ path_table = Nothing
    /\ result = NoResult
    /\ \/ \E e \in ModeEntries : call = [NoCall EXCEPT !.on = "UDFEntry.mode", !.object = e]
       \/ \E e \in SymlinkEntries : call = [NoCall EXCEPT !.on = "UDFEntry.readlink", !.object = e]
       \/ \E r \in TimestampRecords :
            call = [NoCall EXCEPT !.on = "RockRidgeDirectoryRecord.timestamps", !.object = r]
       \/ \E d \in Directories :
            call = [NoCall EXCEPT !.on = "ISO9660DirectoryRecord.iterdir", !.object = d]
       \/ \E d \in DescriptorSequences :
            call = [NoCall EXCEPT !.on = "UDFDisc._load_volume_descriptors", !.object = d]
       \/ \E x \in ExtentReads :
            call = [NoCall EXCEPT !.on = "UDFSparablePartition.open_extent", !.object = x]
       \/ \E e \in UdfEntries, open_as_directory \in BOOLEAN :
            call = [NoCall EXCEPT !.on = "UDFEntry.open",
                                  !.object = [self |-> e, open_as_directory |-> open_as_directory]]
       \/ \E r \in SystemUseRecords :
            call = [NoCall EXCEPT
                        !.on = "SystemUseSharingProtocolDirectoryRecord.__init__",
                        !.object = r,
                        !.value = [blocks |-> <<InitialBlock(r)>>, entries |-> <<>>,
                                   areas |-> 0]]

Returns(outcome) ==
    /\ ~call.done
    /\ call' = [call EXCEPT !.done = TRUE, !.err = outcome.err, !.value = outcome.value]
    /\ UNCHANGED <<status, image, preference, error, iso_format, primary_volumes,
                   name_encoding, logs, path_table, result>>

\* entry.mode on a UDF entry
UdfModeCall ==
    /\ call.on = "UDFEntry.mode"
    /\ Returns([err |-> None, value |-> <<UdfMode(call.object)>>])

\* entry.readlink() on a UDF entry
UdfReadlinkCall ==
    /\ call.on = "UDFEntry.readlink"
    /\ Returns(UdfReadlink(call.object))

\* the first use of a time getter on a Rock Ridge entry, which fills
\* self.timestamps
ResolveTimestampsCall ==
    /\ call.on = "RockRidgeDirectoryRecord.timestamps"
    /\ \E r \in {ResolveTimestamps(call.object.tf)} :
            Returns([err |-> r.err, value |-> r.timestamps])

\* list(entry.iterdir()) on a directory given byte by byte
IsoIterdirCall ==
    /\ call.on = "ISO9660DirectoryRecord.iterdir"
    /\ \E it \in {IsoIterdirLoop(call.object.fh, call.object.size, 0, <<>>)} :
            Returns([err |-> it.err, value |-> it.entries])

\* One turn of the outer loop of _process_system_use_area, which the
\* constructor of a record runs: pop the first block, read it and scan it.
\* areas counts the continuation areas read so far.
ProcessSystemUseAreaStep ==
    /\ call.on = "SystemUseSharingProtocolDirectoryRecord.__init__"
    /\ ~call.done
    /\ call.value.areas < MaxAreas
    /\ \E lenient \in BOOLEAN :
        LET block == Head(call.value.blocks)
            scan == ScanBlock(ReadAll(block), 0, call.value.entries, Tail(call.value.blocks),
                              lenient)
        IN  call' = [call EXCEPT
                        !.done = scan.err # None \/ scan.blocks = <<>>,
                        !.err = scan.err,
                        !.value = [blocks |-> scan.blocks, entries |-> scan.entries,
                                   areas |-> IF block.stream = "RangeStream"
                                             THEN call.value.areas + 1
                                             ELSE call.value.areas]]
    /\ UNCHANGED <<status, image, preference, error, iso_format, primary_volumes,
                   name_encoding, logs, path_table, result>>

\* UDFDisc._load_volume_descriptors, from the sector the anchor names
UdfLoadVolumeDescriptorsCall ==
    /\ call.on = "UDFDisc._load_volume_descriptors"
    /\ \E l \in {UdfLoadVolumeDescriptors(call.object, 1, Nothing, <<>>)} :
            Returns([err |-> l.err, value |-> [lvd |-> l.lvd, ppm |-> l.ppm]])

\* partition.open_extent(logical_block_num, length) on a sparable partition
SparableOpenExtentCall ==
    /\ call.on = "UDFSparablePartition.open_extent"
    /\ Returns(SparableOpenExtent(call.object.partition, call.object.logical_block_num,
                                  call.object.length))

\* entry.open(open_as_directory) on a UDF entry
UdfOpenCall ==
    /\ call.on = "UDFEntry.open"
    /\ Returns(UdfOpen(call.object.self, call.object.open_as_directory))

NextEntry ==
    \/ UdfModeCall
    \/ UdfReadlinkCall
    \/ ResolveTimestampsCall
    \/ IsoIterdirCall
    \/ ProcessSystemUseAreaStep
    \/ UdfLoadVolumeDescriptorsCall
    \/ SparableOpenExtentCall
    \/ UdfOpenCall

SpecEntry == InitEntry /\ [][NextEntry]_vars

(* ---------------- one file handle under several readers ---------------- *)
\* call.object is the disc, call.value the position of its file handle and
\* the two iterdir() generators that were created on it
InitStream ==
    /\ status = "closed"
    /\ image = NoImage
    /\ preference = None
    /\ error = None
    /\ iso_format = None
    /\ primary_volumes = EmptyVolumes
    /\ name_encoding = "utf-8"
    /\ logs = <<>>
    /\ path_table = Nothing
    /\ result = NoResult
    /\ \E disc \in StreamDiscs :
        /\ disc.dirs[1] # disc.dirs[2]
        /\ disc.dirs[1].size <= disc.dirs[2].size
        /\ call = [NoCall EXCEPT !.on = "Disc.fh", !.object = disc,
                                 !.value = [pos |-> 0, its |-> <<NewIterator, NewIterator>>]]

\* the generators after some other reader ran: one that is under way was
\* interrupted
Interrupt(its, S) ==
    [j \in DOMAIN its |->
        IF j \in S /\ its[j].started /\ ~its[j].done THEN [its[j] EXCEPT !.interrupted = TRUE]
        ELSE its[j]]

Moves(pos, its) ==
    /\ call.on = "Disc.fh"
    /\ call' = [call EXCEPT !.value = [pos |-> pos, its |-> its]]
    /\ UNCHANGED <<status, image, preference, error, iso_format, primary_volumes,
                   name_encoding, logs, path_table, result>>

\* next() on generator i
IterdirNext(i) ==
    /\ ~call.value.its[i].done
    /\ \E step \in {IterdirStep(call.object, i, call.value.its[i], call.value.pos)} :
            Moves(step.pos, [Interrupt(call.value.its, {1, 2} \ {i}) EXCEPT ![i] = step.it])

\* get(name) by traversal: the loop of get runs a fresh generator over
\* directory k to its end
StreamGet(k) ==
    Moves(RunAlone(call.object, k, NewIterator, call.value.pos).pos,
          Interrupt(call.value.its, {1, 2}))

\* entry.open().read() on the file in block 70: the RangeStream seeks fh to
\* the extent and reads the file's size
StreamOpenRead ==
    Moves(Read(call.object, Seek(call.value.pos, 70 * LogicalBlockSize2048), 3).pos,
          Interrupt(call.value.its, {1, 2}))

\* entry.mode, uid, gid, nlinks, mtime, ctime, atime on an entry that was
\* yielded: computed from the entry's own bytes, fh is not touched
StreamMetadata ==
    /\ \E i \in {1, 2} : call.value.its[i].yielded # <<>>
    /\ Moves(call.value.pos, Interrupt(call.value.its, {1, 2}))

NextStream ==
    \/ \E i \in {1, 2} : IterdirNext(i)
    \/ \E k \in {1, 2} : StreamGet(k)
    \/ StreamOpenRead
    \/ StreamMetadata

SpecStream == InitStream /\ [][NextStream]_vars

(* ------------------------ what the claims speak of --------------------- *)
\* the image carries UDF: a UDF recognition sequence follows the ISO 9660
\* descriptors (or stands in their place)
UdfPresent(img) == img.after_vds \in UDF_MAGICS

\* the ISO 9660 probe succeeds: the descriptor set is read to its end and
\* holds a primary volume descriptor
IsoPresent(img) ==
    /\ LoadVolumeDescriptors(img.vds, 1, EmptyVolumes).err = None
    /\ LoadVolumeDescriptors(img.vds, 1, EmptyVolumes).pv[PLAIN] # Nothing

Registered(f) == f \in DOMAIN primary_volumes /\ primary_volumes[f] # Nothing
Logged(m) == \E i \in DOMAIN logs : logs[i] = m

\* the first present format in the order UDF > ROCKRIDGE > JOLIET > ISO9660
BestPresent ==
    IF UdfPresent(image) THEN UDF
    ELSE IF Registered(ROCKRIDGE) THEN ROCKRIDGE
    ELSE IF Registered(JOLIET) THEN JOLIET
    ELSE PLAIN

\* the directory tree of the image as a format shows it: the name of a
\* node, whether a directory lists it, and the children of a node
NodeName(fmt, n) ==
    IF fmt = PLAIN THEN (IF n.dir THEN n.base \o n.ver ELSE n.base) ELSE n.long
Listed(fmt, n) == fmt # ROCKRIDGE \/ ~n.re
IsDirIn(fmt, n) == n.dir \/ (fmt # PLAIN /\ n.cl # Nothing)
Children(img, n) ==
    IF n = NodeA THEN img.sub ELSE IF n \in {NodeR, NodeC} THEN <<NodeF5>> ELSE <<>>
RECURSIVE NamesEntry(_, _, _, _)
NamesEntry(img, fmt, children, comps) ==
    \/ comps = <<>>
    \/ \E i \in DOMAIN children :
        /\ Listed(fmt, children[i])
        /\ NodeName(fmt, children[i]) = Head(comps)
        /\ \/ Len(comps) = 1
           \/ IsDirIn(fmt, children[i]) /\ NamesEntry(img, fmt, Children(img, children[i]), Tail(comps))
NonEmpty(c) == c # ""
Components(path) == SelectSeq(Split(Normalise(path)), NonEmpty)
EntryNames(entries) == {entries[i].name : i \in DOMAIN entries}

C2_DefaultOrder ==
    (status = "open" /\ preference = None) => iso_format = BestPresent

\* C3: in every state of an opened Disc the selected tag is a key of the
\* mapping that holds a volume, and the mapping holds at least one.
C3_SelectedIsRegistered ==
    status = "open"
        => /\ Registered(iso_format)
           /\ \E f \in DOMAIN primary_volumes : primary_volumes[f] # Nothing
C3_Witness ==
    /\ status = "open"
    /\ result.op = "listdir"
    /\ path_table # Nothing
    /\ Registered(iso_format)

\* C4: opening with a preference that is not available (UDF included) on a
\* disc that has some format does not fail: it logs the fallback message
\* and selects the first available format of the default order.
C4_Fallback ==
    (/\ status # "closed"
     /\ preference # None
     /\ ~Registered(preference)
     /\ IsoPresent(image)
     /\ image.volume_id # <<>>
     /\ ~(image.susp = SUSP_MAGIC /\ image.er = Nothing))
        => /\ status = "open"
           /\ iso_format = FirstAvailable(primary_volumes, 1)
           /\ Logged(FallbackMessage(preference, iso_format))

\* C5: open succeeds exactly when some probe succeeds, and an image with
\* UDF but no ISO 9660 primary volume descriptor opens with UDF selected.
C5_OpenIffProbe ==
    status # "closed"
        => /\ (status = "open") <=> (IsoPresent(image) \/ UdfPresent(image))
           /\ (UdfPresent(image) /\ ~IsoPresent(image)) => iso_format = UDF

\* C6: the Joliet-over-Rock-Ridge warning is logged exactly when Joliet is
\* preferred and both Joliet and Rock Ridge are available, and then Joliet
\* is the selected format.
C6_JolietWarning ==
    status # "closed"
        => /\ Logged(JolietMessage)
                <=> (preference = JOLIET /\ Registered(JOLIET) /\ Registered(ROCKRIDGE))
           /\ (status = "open" /\ Logged(JolietMessage)) => iso_format = JOLIET
C6_Witness ==
    /\ status = "open"
    /\ Logged(JolietMessage)
    /\ iso_format = JOLIET

\* C7: the UDF diagnostic is logged when a format other than UDF is
\* preferred and selected on a disc that also has UDF, and is not logged
\* when no preference or the preference UDF was given.
C7_UdfDiagnostic ==
    status = "open"
        => /\ (preference \notin {None, UDF} /\ iso_format = preference /\ UdfPresent(image))
                => Logged(UdfMessage)
           /\ preference \in {None, UDF} => ~Logged(UdfMessage)

\* C8: when get succeeds on a path both by traversal and by path table, the
\* two entries have the same extent, size and is_dir.
C8_PathTableEquivalence ==
    (/\ result.op = "get"
     /\ result.err = None
     /\ DiscGet(image, iso_format, path_table, result.path, ~result.use_path_table).err = None)
        => LET other == DiscGet(image, iso_format, path_table, result.path,
                                ~result.use_path_table).entry[1]
           IN  /\ other.record.extent = result.entry[1].record.extent
               /\ other.record.size = result.entry[1].record.size
               /\ other.is_dir = result.entry[1].is_dir

\* C9: get on a path that names no entry of the selected format's tree
\* fails with FileNotFoundError, by traversal and by path table.
C9_NotFound ==
    (/\ result.op = "get"
     /\ ~NamesEntry(image, iso_format, image.root, Components(result.path)))
        => result.err = "FileNotFoundError" /\ result.entry = Nothing

\* C10: the keys of listdir(d) are the names iterdir(d) yields, each key
\* maps to an entry iterdir(d) yields under that name, and for a name
\* yielded more than once that entry is the one d.get(name) returns.
C10_ListdirRoundTrip ==
    (result.op = "listdir" /\ result.err = None)
        => LET d == result.entry[1]
               yielded == Iterdir(image, d).entries
           IN  /\ DOMAIN result.value = EntryNames(yielded)
               /\ \A k \in DOMAIN result.value :
                    /\ \E i \in DOMAIN yielded :
                         yielded[i].name = k /\ yielded[i] = result.value[k]
                    /\ d.is_dir => EntryGet(image, d, <<k>>).entry = Some(result.value[k])
C10_Witness ==
    /\ result.op = "listdir"
    /\ result.err = None
    /\ result.entry[1].is_dir
    /\ Cardinality(DOMAIN result.value) < Len(Iterdir(image, result.entry[1]).entries)
    /\ Cardinality(DOMAIN result.value) > 2

\* the root entry of the opened disc, and the records a directory holds
RootEntry == MakeRecord(image, iso_format, RootRecord(iso_format))
RecordsOf(e) == Block(image, e.record.extent).recs
Front(c) == SubSeq(c, 1, Len(c) - 1)
Held == result.entry[1]
Returned(op) == result.op = op /\ result.err = None

\* C11: in the Rock Ridge tree a record with an RE entry is never yielded by
\* iterdir; a record with a CL entry is yielded as a directory bound to the
\* record at the CL location under the placeholder's NM name, iterating it
\* lists the children of the relocated directory, and the relocated
\* directory shows at most once in the listing and is reached by its
\* placeholder's name from the root.
C11_Relocation ==
    /\ (Returned("iterdir") /\ Held.rockridge)
        => /\ \A i \in DOMAIN RecordsOf(Held) :
                RecordsOf(Held)[i].re
                    => \A j \in DOMAIN result.value : result.value[j].record # RecordsOf(Held)[i]
           /\ \A i \in DOMAIN RecordsOf(Held) :
                RecordsOf(Held)[i].cl # Nothing
                    => \E j \in DOMAIN result.value :
                        /\ result.value[j].name = RecordsOf(Held)[i].nm
                        /\ result.value[j].is_dir
                        /\ result.value[j].record.extent = RecordsOf(Held)[i].cl[1]
                        /\ EntryNames(Iterdir(image, result.value[j]).entries)
                            = {SetName(r) : r \in {x \in Range(Block(image, RecordsOf(Held)[i].cl[1]).recs) : ~x.re}}
           /\ Cardinality({j \in DOMAIN result.value :
                            /\ result.value[j].record.extent = NodeR.extent
                            /\ result.value[j].name \notin {".", ".."}}) <= 1
    /\ (/\ result.op = "get"
        /\ ~result.use_path_table
        /\ iso_format = ROCKRIDGE
        /\ Components(result.path) = <<"c">>
        /\ NodeC \in Range(image.root))
        => /\ result.err = None
           /\ Held.name = "c" /\ Held.is_dir /\ Held.record.extent = NodeR.extent
C11_Witness ==
    /\ Returned("iterdir")
    /\ iso_format = ROCKRIDGE
    /\ Held = RootEntry
    /\ NodeC \in Range(image.root)
    /\ NodeR \in Range(image.root)
    /\ \E j \in DOMAIN result.value : result.value[j].name = "c" /\ result.value[j].is_dir

\* C12: every Rock Ridge entry that get by traversal returns for a path
\* below the root, and every entry iterdir yields, has the directory that
\* contains it as its parent.
C12_ParentBackReference ==
    /\ (/\ Returned("get")
        /\ ~result.use_path_table
        /\ iso_format = ROCKRIDGE
        /\ Components(result.path) # <<>>)
        => Held.parent = Walk(image, RootEntry, Front(Components(result.path))).entry
    /\ (Returned("iterdir") /\ Held.rockridge)
        => \A j \in DOMAIN result.value : result.value[j].parent = Some(Held)

\* C13: on a Rock Ridge entry with a TF entry mtime, ctime and atime are the
\* MODIFY, ATTRIBUTES and ACCESS values, each falling back to the record's
\* own timestamp when TF does not hold it; on an ISO 9660 or Joliet entry
\* the three are equal.
TimeType(op) == IF op = "mtime" THEN "MODIFY" ELSE IF op = "ctime" THEN "ATTRIBUTES" ELSE "ACCESS"
TypeIndex(type) == CHOOSE i \in DOMAIN TimestampTypes : TimestampTypes[i] = type
C13_TimestampParity ==
    /\ (result.op \in {"mtime", "ctime", "atime"} /\ Held.rockridge /\ Held.record.tf # Nothing)
        => /\ result.err = None
           /\ result.value =
                IF Held.record.tf[1].flags[TypeIndex(TimeType(result.op))]
                THEN <<"t_" \o TimeType(result.op)>>
                ELSE <<Held.record.date_time>>
    /\ (result.entry # Nothing /\ ~Held.rockridge)
        => /\ EntryMtime(Held) = EntryCtime(Held)
           /\ EntryCtime(Held) = EntryAtime(Held)
           /\ EntryAtime(Held).err = None

\* C14: on a Rock Ridge entry whose record has a PX entry mode, nlinks, uid
\* and gid are PX.mode, PX.links, PX.uid and PX.gid; without PX they are
\* 0o644, 1, 0 and 0.
PxField(px, op) ==
    IF op = "mode" THEN px.mode ELSE IF op = "nlinks" THEN px.links
    ELSE IF op = "uid" THEN px.uid ELSE px.gid
BaseDefault(op) == IF op = "mode" THEN 420 ELSE IF op = "nlinks" THEN 1 ELSE 0
C14_PosixAttributes ==
    (result.op \in {"mode", "nlinks", "uid", "gid"} /\ Held.rockridge)
        => /\ result.err = None
           /\ result.value =
                IF Held.record.px # Nothing THEN <<PxField(Held.record.px[1], result.op)>>
                ELSE <<BaseDefault(result.op)>>

\* C17 (as the code has it): on an ISO 9660 or Joliet entry whose record has
\* ext_attr_length = 0, mode, uid, gid, nlinks and inode are 0o644, 0, 0, 1
\* and 0; with ext_attr_length # 0, mode, uid and gid raise
\* NotImplementedError, while nlinks and inode still return 1 and 0.
C17_PlainMetadata ==
    (result.op \in {"mode", "uid", "gid", "nlinks", "inode"} /\ ~Held.rockridge)
        => IF Held.record.ext_attr_length = 0 \/ result.op \in {"nlinks", "inode"}
           THEN result.err = None /\ result.value = <<BaseDefault(result.op)>>
           ELSE result.err = "NotImplementedError" /\ result.value = <<>>
C17_Witness ==
    /\ result.op = "uid"
    /\ ~Held.rockridge
    /\ Held.record.ext_attr_length # 0
    /\ result.err = "NotImplementedError"
\* C17 as stated: with ext_attr_length # 0 every metadata getter rejects
C17_AllGettersReject ==
    (/\ result.op \in {"mode", "uid", "gid", "nlinks", "inode"}
     /\ ~Held.rockridge)
        => IF Held.record.ext_attr_length = 0
           THEN result.err = None /\ result.value = <<BaseDefault(result.op)>>
           ELSE result.err = "NotImplementedError" /\ result.value = <<>>

\* the path of the i-th entry of a path table whose entries name earlier
\* entries as their parents, and the directory part of a key
WellFormedTable(bytes) ==
    \A i \in 2..Len(bytes) : bytes[i].parent_dir_no \in 1..(i - 1)
RECURSIVE PathOf(_, _)
PathOf(bytes, i) ==
    IF i = 1 THEN <<"/">>
    ELSE IF PathOf(bytes, bytes[i].parent_dir_no) = <<"/">> THEN <<"/", bytes[i].name>>
    ELSE PathOf(bytes, bytes[i].parent_dir_no) \o <<"/", bytes[i].name>>
ParentKey(key) == IF RPartitionHead(key) = <<>> THEN <<"/">> ELSE RPartitionHead(key)

\* C19: the path table map holds, for every entry in table order, the path
\* built from its parent's path and its name, mapped to its extent (entry 1
\* is "/"), so every key but "/" has its parent path as a key; and when an
\* entry after the first names a parent that is not an earlier entry, every
\* get by path table is rejected.
C19_PathTableBuild ==
    LET bytes == PathTableBytes(image, iso_format)
    IN  /\ (status = "open" /\ path_table # Nothing /\ WellFormedTable(bytes))
            => /\ DOMAIN path_table[1] = {PathOf(bytes, i) : i \in DOMAIN bytes}
               /\ \A i \in DOMAIN bytes :
                    \/ path_table[1][PathOf(bytes, i)] = bytes[i].extent_location
                    \/ \E j \in (i + 1)..Len(bytes) : PathOf(bytes, j) = PathOf(bytes, i)
               /\ \A key \in DOMAIN path_table[1] :
                    key # <<"/">> => ParentKey(key) \in DOMAIN path_table[1]
        /\ (/\ status = "open"
            /\ ~WellFormedTable(bytes)
            /\ result.op = "get"
            /\ result.use_path_table)
            => result.err = "KeyError"

\* bit b of x, and the calls made on entries built apart from a disc
Bit(x, b) == (x \div (2 ^ b)) % 2 = 1
Called(on) == call.on = on /\ call.done

\* C15: every bit of a UDF entry's mode is accounted for: bits 0-2 are bits
\* 0-2 of the stored permissions, bits 3-5 its bits 5-7, bits 6-8 its bits
\* 10-12, bits 9, 10 and 11 (S_ISVTX, S_ISGID, S_ISUID) the ICB flags, and
\* no higher bit is set.
C15_UdfModeAssembly ==
    Called("UDFEntry.mode")
        => LET perm == call.object.permissions
               mode == call.value[1]
           IN  /\ call.err = None
               /\ \A b \in 0..2 : Bit(mode, b) <=> Bit(perm, b)
               /\ \A b \in 3..5 : Bit(mode, b) <=> Bit(perm, b + 2)
               /\ \A b \in 6..8 : Bit(mode, b) <=> Bit(perm, b + 4)
               /\ Bit(mode, 9) <=> call.object.C_ISVTX
               /\ Bit(mode, 10) <=> call.object.S_ISGID
               /\ Bit(mode, 11) <=> call.object.S_ISUID
               /\ mode \in 0..4095
C15_Witness ==
    /\ Called("UDFEntry.mode")
    /\ call.object.S_ISUID /\ ~call.object.S_ISGID /\ call.object.C_ISVTX
    /\ call.object.permissions > 2 ^ 30
    /\ call.value = <<2048 + 512 + 493>>

\* C16 (as the code has it): the stored permissions 0b110100100 with no
\* setuid, setgid or sticky flag give mode & 0o777 = 0o054.
C16_ModeExample ==
    (/\ Called("UDFEntry.mode")
     /\ call.object.permissions = 420
     /\ ~call.object.S_ISUID /\ ~call.object.S_ISGID /\ ~call.object.C_ISVTX)
        => call.value[1] % 512 = 44
C16_Witness ==
    /\ Called("UDFEntry.mode")
    /\ call.object.permissions = 420
    /\ ~call.object.S_ISUID /\ ~call.object.S_ISGID /\ ~call.object.C_ISVTX
    /\ call.value = <<44>>
\* C16 as stated: the same entry gives mode & 0o777 = 0o744
C16_ModeExampleAsStated ==
    (/\ Called("UDFEntry.mode")
     /\ call.object.permissions = 420
     /\ ~call.object.S_ISUID /\ ~call.object.S_ISGID /\ ~call.object.C_ISVTX)
        => call.value[1] % 512 = 484

\* the target a sequence of components spells: what follows the last ROOT,
\* joined by "/", after a "/" when there is a ROOT
ComponentText(c) ==
    IF c.component_type = "PARENT" THEN ".."
    ELSE IF c.component_type = "CURDIR" THEN "."
    ELSE c.component_identifier[2]
LastRoot(cs) ==
    IF \E i \in DOMAIN cs : cs[i].component_type = "ROOT"
    THEN CHOOSE i \in DOMAIN cs :
            /\ cs[i].component_type = "ROOT"
            /\ \A j \in DOMAIN cs : cs[j].component_type = "ROOT" => j <= i
    ELSE 0
RECURSIVE JoinSlash(_)
JoinSlash(texts) ==
    IF texts = <<>> THEN ""
    ELSE IF Len(texts) = 1 THEN Head(texts)
    ELSE Head(texts) \o "/" \o JoinSlash(Tail(texts))
SpelledTarget(cs) ==
    (IF LastRoot(cs) > 0 THEN "/" ELSE "")
        \o JoinSlash([i \in 1..(Len(cs) - LastRoot(cs)) |-> ComponentText(cs[LastRoot(cs) + i])])

\* C18: readlink on a UDF symlink whose components are ROOT, PARENT, CURDIR
\* and IDENTIFIER components returns the target they spell, with one "/"
\* between components and none at the start or right after a ROOT; on an
\* entry that is not a symlink it raises NotASymlinkError.
C18_UdfReadlink ==
    Called("UDFEntry.readlink")
        => IF ~call.object.symlink THEN call.err = "NotASymlinkError"
           ELSE (\A i \in DOMAIN call.object.components :
                    call.object.components[i].component_type
                        \in {"ROOT", "PARENT", "CURDIR", "IDENTIFIER"})
                    => /\ call.err = None
                       /\ call.value = <<SpelledTarget(call.object.components)>>
C18_Witness ==
    /\ Called("UDFEntry.readlink")
    /\ call.object.symlink
    /\ Len(call.object.components) = 3
    /\ call.object.components[1].component_type = "IDENTIFIER"
    /\ call.object.components[2].component_type = "ROOT"
    /\ call.value = <<"/a">>

\* C20: after the TF entry of a record is decoded, a value is stored under
\* exactly the flags that are set, and the value stored under a flag is the
\* one the values array holds for it.
C20_TimestampDecoding ==
    Called("RockRidgeDirectoryRecord.timestamps")
        => /\ call.err = None
           /\ DOMAIN call.value
                = {TimestampTypes[i] : i \in {k \in 1..7 : call.object.tf[1].flags[k]}}
           /\ \A t \in DOMAIN call.value : call.value[t] = "t_" \o t

\* C21: the path table is computed once and all or nothing: a cached map is
\* the complete map of the image's table, and every get by path table gives
\* the outcome that the first get of that path on a fresh Disc gives, also
\* after a get that failed while the table was being built.
C21_LazyCaches ==
    /\ (status = "open" /\ path_table # Nothing)
        => /\ PathTable(image, iso_format, Nothing).err = None
           /\ path_table[1] = PathTable(image, iso_format, Nothing).table
    /\ (status = "open" /\ result.op = "get" /\ result.use_path_table)
        => /\ result.err = DiscGet(image, iso_format, Nothing, result.path, TRUE).err
           /\ result.entry = DiscGet(image, iso_format, Nothing, result.path, TRUE).entry

\* C22: iterdir on a directory of record.size bytes yields the records of
\* the directory in on-disc order, each parsed at an offset inside the
\* directory, and ends without error, whether zero bytes follow the last
\* record inside the directory or the records fill it exactly.
C22_IterdirInBuffer ==
    Called("ISO9660DirectoryRecord.iterdir")
        => /\ call.err = None
           /\ Len(call.value) = Len(call.object.records)
           /\ \A i \in DOMAIN call.value :
                /\ call.value[i].name = call.object.records[i].name
                /\ call.value[i].offset < call.object.size

\* the entries a record's System Use Area and its continuation areas hold,
\* in the order the areas are to be scanned: each buffer to its end, then
\* the areas its CE entries name, first named first
IsCE(e) == e.signature = "CE"
AreaEntries(e) == Areas[e.target].entries
RECURSIVE Continued(_)
Continued(queue) ==
    IF queue = <<>> THEN <<>>
    ELSE Head(queue) \o Continued(Tail(queue) \o MapSeq(AreaEntries, SelectSeq(Head(queue), IsCE)))
LoopingAreas == {i \in DOMAIN Areas : \E e \in Range(Areas[i].entries) : IsCE(e) /\ e.target >= i}
Constructed == call.on = "SystemUseSharingProtocolDirectoryRecord.__init__" /\ call.done

\* C23: after a record whose CE chain ends is constructed, every entry of its
\* System Use Area and of every continuation area, read at extent x block
\* size + offset for size bytes, is recorded under its signature, in the
\* order: current buffer to its end, then the continuation areas in the
\* order of their CE entries.
C23_ContinuationAreas ==
    (/\ Constructed
     /\ call.object.name_len = 1
     /\ call.object.padding <= 1
     /\ \A e \in Range(call.object.plan) : e.target \notin LoopingAreas)
        => LET order == Continued(<<call.object.plan>>)
           IN  /\ call.err = None
               /\ DOMAIN call.value.entries = {Signature(e.signature) : e \in Range(order)}
               /\ \A e \in Range(order) :
                    call.value.entries[Signature(e.signature)]
                        = MapSeq(EntryBytes,
                                 SelectSeq(order, LAMBDA x : x.signature = e.signature))

\* C24: constructing a record reads at most 16 continuation areas, whatever
\* the CE entries of the image name, and a System Use Area whose entries are
\* followed by zero bytes is scanned without error up to its first zero
\* byte, whatever the number of zero bytes.
C24_ScanTerminates ==
    call.on = "SystemUseSharingProtocolDirectoryRecord.__init__"
        => /\ call.value.areas <= 16
           /\ (/\ call.done
               /\ call.object.padding >= 1
               /\ \A e \in Range(call.object.plan) : ~IsCE(e))
                => /\ call.err = None
                   /\ <<0, 0>> \notin DOMAIN call.value.entries

\* C25: when the SUSP magic follows the root record and the root's first
\* record has no ER entry, or an ER entry with an identifier that is not a
\* Rock Ridge one, Rock Ridge is not registered and the Disc opens with one
\* of the other formats, as it does for the same image without the magic.
SuspUnrecognised ==
    /\ image.susp = SUSP_MAGIC
    /\ image.er = Nothing \/ image.er[1] \notin ROCKRIDGE_MAGICS
C25_RockRidgeProbe ==
    (/\ status # "closed"
     /\ SuspUnrecognised
     /\ DiscInit([image EXCEPT !.susp = "000000"], preference).err = None)
        => /\ status = "open"
           /\ primary_volumes[ROCKRIDGE] = Nothing
           /\ iso_format \in {JOLIET, PLAIN}

\* the sectors of a sequence before its Terminating Descriptor
RECURSIVE BeforeTD(_)
BeforeTD(sectors) ==
    IF sectors = <<>> \/ Head(sectors).identifier = "TD" THEN <<>>
    ELSE <<Head(sectors)>> \o BeforeTD(Tail(sectors))
Tagged(sectors, id) == Cardinality({i \in DOMAIN sectors : sectors[i].identifier = id})

\* C26: the main volume descriptor sequence loads only if exactly one PD and
\* exactly one LVD precede the TD; a terminated sequence with no PD or no
\* LVD is rejected, and a sequence with two or more PDs is rejected with
\* NotImplementedError (multiple partitions).
C26_DescriptorChain ==
    Called("UDFDisc._load_volume_descriptors")
        => /\ call.err = None
                => /\ Tagged(BeforeTD(call.object), "PD") = 1
                   /\ Tagged(BeforeTD(call.object), "LVD") = 1
           /\ (Tagged(BeforeTD(call.object), "PD") = 0 \/ Tagged(BeforeTD(call.object), "LVD") = 0)
                => call.err # None
           /\ Tagged(BeforeTD(call.object), "PD") >= 2 => call.err = "NotImplementedError"

\* C27: open_extent on a sparable partition fails with NotImplementedError
\* (remapped position) when the block is the original location or the
\* mapped location of an entry of the sparing table, and for every other
\* block returns the range of the given length that starts at
\* (partition_starting_location + block) x sector_size.
C27_SparableReads ==
    Called("UDFSparablePartition.open_extent")
        => LET buf == call.object.partition.mappings_buf
               block == call.object.logical_block_num
           IN  IF \E i \in DOMAIN buf :
                    buf[i].original_location = block \/ buf[i].mapped_location = block
               THEN call.err = "NotImplementedError"
               ELSE /\ call.err = None
                    /\ call.value
                        = <<RangeStream((call.object.partition.partition_starting_location + block)
                                            * call.object.partition.sector_size,
                                        call.object.length)>>

\* C28: for a UDF file entry with short (8-byte) or long (16-byte)
\* allocation descriptors of total length L, open() gives a stream with
\* exactly L divided by the descriptor size extents, in descriptor order
\* (none when L is 0), and extent k is mapped at the stream offset equal to
\* the sum of the lengths of the extents before it.
C28_ExtentList ==
    (/\ Called("UDFEntry.open")
     /\ call.object.self.allocation_type \in {"short_descriptors", "long_descriptors"}
     /\ ~(call.object.self.is_dir /\ ~call.object.open_as_directory))
        => LET self == call.object.self
               ads == self.descriptors
           IN  /\ call.err = None
               /\ Len(call.value[1].runs)
                    = self.entry.length_of_allocation_descriptors \div AdSize(self.allocation_type)
               /\ \A k \in DOMAIN call.value[1].runs :
                    /\ call.value[1].runs[k].offset = SumLengths(SubSeq(ads, 1, k - 1))
                    /\ call.value[1].runs[k].size = ads[k].extent_length
                    /\ call.value[1].runs[k].stream
                        = RangeStream((self.disc.partition_map[ads[k].partition_reference_number]
                                            .partition_starting_location + ads[k].extent_position) * 2048,
                                      ads[k].extent_length)

\* C29: path traversal never descends through a non-directory: get
\* relative to an entry that is not a directory fails with
\* NotADirectoryError, and an entry that get returns was yielded by a
\* directory, never parsed from the content of a regular file.
C29_NoDescentThroughFile ==
    (status = "open" /\ result.op = "get" /\ result.err = None)
        => /\ ~Held.is_dir
                => \A path \in Paths : EntryGet(image, Held, path).err = "NotADirectoryError"
           /\ Held.parent # Nothing => Held.parent[1].is_dir

\* what generator i of the disc yields when nothing else touches fh
Alone(i) == RunAlone(call.object, i, NewIterator, 0).it

\* C30: whatever the interleaving of the steps of two iterdir generators
\* over different directories with get, open().read() and metadata calls on
\* the same disc, each generator yields the entries it yields when run
\* alone (and ends as it ends alone), in ISO 9660, Joliet, Rock Ridge and
\* UDF.
C30_StreamPositionIndependence ==
    call.on = "Disc.fh"
        => \A i \in {1, 2} :
            LET it == call.value.its[i]
                alone == Alone(i)
            IN  /\ Len(it.yielded) <= Len(alone.yielded)
                /\ it.yielded = SubSeq(alone.yielded, 1, Len(it.yielded))
                /\ it.done => it.yielded = alone.yielded /\ it.err = alone.err

\* both generators were interrupted by another reader and ran to their end,
\* each having yielded two entries
C30_Witness ==
    /\ call.on = "Disc.fh"
    /\ \A i \in {1, 2} :
        /\ call.value.its[i].done
        /\ call.value.its[i].interrupted
        /\ Len(call.value.its[i].yielded) = 2

====
